---- MODULE Spec2Model ----
(***************************************************************************)
(* Subdomain scanner: POST /api/scan (src/src/app/api/scan/route.ts), the  *)
(* crt.sh discoverer and wordlist generator (src/src/lib/crtsh.ts), the    *)
(* batched DNS resolver (src/src/lib/dns-resolver.ts) and the Cloudflare   *)
(* classifier (src/src/lib/cloudflare.ts).                                 *)
(*                                                                         *)
(* A JavaScript string is a sequence of one-character strings.  A nullable *)
(* string is a record [isNull, s].  Asynchronous functions are state       *)
(* machines whose transitions are the event-loop tasks (a DNS answer, a    *)
(* timer, an HTTP response); the synchronous code that follows an await,   *)
(* including the microtasks it schedules, runs inside the same action.     *)
(***************************************************************************)
EXTENDS Integers, Sequences, FiniteSets, TLC

VARIABLES
    probe,          \* input of the pure function applied on its own
    probeOut,       \* its output, or the pending marker
    request,        \* POST: the request body
    ppc,            \* POST: position of the handler
    response,       \* POST: the response sent
    ctFetches,      \* number of crt.sh requests issued
    ctOutcome,      \* how the crt.sh request ended
    ctSubdomains,   \* POST: const ctSubdomains
    allSubdomains,  \* POST: const allSubdomains
    subdomains,     \* resolveSubdomains: parameter subdomains
    concurrency,    \* resolveSubdomains: parameter concurrency
    i,              \* resolveSubdomains: loop variable i
    results,        \* resolveSubdomains: const results
    completed,      \* resolveSubdomains: let completed
    rpc,            \* resolveSubdomains: position
    task,           \* resolveSingle call of each candidate
    mapper,         \* chunk.map callback of each candidate
    dnsIssued,      \* number of DNS queries issued so far
    onProgress,     \* resolveSubdomains: parameter onProgress, and its calls
    commonSubdomains, \* crtsh.ts: contents of the module's array COMMON_SUBDOMAINS
    other           \* a second invocation of POST running at the same time

vars == << probe, probeOut, request, ppc, response, ctFetches, ctOutcome,
           ctSubdomains, allSubdomains, subdomains, concurrency, i, results,
           completed, rpc, task, mapper, dnsIssued, onProgress, commonSubdomains,
           other >>

postVars == << request, ppc, response, ctFetches, ctOutcome, ctSubdomains,
               allSubdomains >>

resolverVars == << subdomains, concurrency, i, results, completed, rpc, task,
                   mapper, dnsIssued, onProgress >>

probeVars == << probe, probeOut >>

moduleVars == << commonSubdomains >>

otherVars == << other >>

----------------------------------------------------------------------------
(* Bounds *)

MaxDomainLen == 6
MaxCandidates == 3
MaxConcurrency == 3
WordlistLen == 1
ExampleWordlistLen == 6
MaxNames == 2
MaxEntries == 1
MaxRewind == 3

----------------------------------------------------------------------------
(* Characters and strings *)

LowerLetters ==
    << "a", "b", "c", "d", "e", "f", "g", "h", "i", "j", "k", "l", "m",
       "n", "o", "p", "q", "r", "s", "t", "u", "v", "w", "x", "y", "z" >>

UpperLetters ==
    << "A", "B", "C", "D", "E", "F", "G", "H", "I", "J", "K", "L", "M",
       "N", "O", "P", "Q", "R", "S", "T", "U", "V", "W", "X", "Y", "Z" >>

Digits == << "0", "1", "2", "3", "4", "5", "6", "7", "8", "9" >>

Range(f) == { f[x] : x \in DOMAIN f }

IndexOf(seq, c) == CHOOSE n \in DOMAIN seq : seq[n] = c

LowerSet == Range(LowerLetters)
UpperSet == Range(UpperLetters)
DigitSet == Range(Digits)
WhiteSpace == { " ", "\n", "\t" }

\* the characters strings are made of
Chars == LowerSet \cup UpperSet \cup DigitSet \cup WhiteSpace
         \cup { "*", "-", ".", "/", ":", "_" }

\* UTF-16 code unit of a character
CharCode ==
    [ c \in Chars |->
        IF c \in LowerSet THEN 96 + IndexOf(LowerLetters, c)
        ELSE IF c \in UpperSet THEN 64 + IndexOf(UpperLetters, c)
        ELSE IF c \in DigitSet THEN 47 + IndexOf(Digits, c)
        ELSE IF c = "\t" THEN 9
        ELSE IF c = "\n" THEN 10
        ELSE IF c = " " THEN 32
        ELSE IF c = "*" THEN 42
        ELSE IF c = "-" THEN 45
        ELSE IF c = "." THEN 46
        ELSE IF c = "/" THEN 47
        ELSE IF c = ":" THEN 58
        ELSE 95 ]

\* String.prototype.toLowerCase
LowerChar ==
    [ c \in Chars |-> IF c \in UpperSet THEN LowerLetters[IndexOf(UpperLetters, c)] ELSE c ]
toLowerCase(s) == [ n \in DOMAIN s |-> LowerChar[s[n]] ]

\* String.prototype.startsWith / endsWith
startsWith(s, p) == Len(p) <= Len(s) /\ SubSeq(s, 1, Len(p)) = p
endsWith(s, p) == Len(p) <= Len(s) /\ SubSeq(s, Len(s) - Len(p) + 1, Len(s)) = p

\* String.prototype.trim
RECURSIVE trimStart(_)
trimStart(s) == IF s # <<>> /\ Head(s) \in WhiteSpace THEN trimStart(Tail(s)) ELSE s
RECURSIVE trimEnd(_)
trimEnd(s) ==
    IF s # <<>> /\ s[Len(s)] \in WhiteSpace THEN trimEnd(SubSeq(s, 1, Len(s) - 1)) ELSE s
trim(s) == trimEnd(trimStart(s))

\* String.prototype.split with a one-character separator
RECURSIVE splitFrom(_, _, _)
splitFrom(s, sep, cur) ==
    IF s = <<>> THEN << cur >>
    ELSE IF Head(s) = sep THEN << cur >> \o splitFrom(Tail(s), sep, <<>>)
    ELSE splitFrom(Tail(s), sep, Append(cur, Head(s)))
split(s, sep) == splitFrom(s, sep, <<>>)

\* comparison of two strings by UTF-16 code units: -1, 0 or 1
RECURSIVE codeUnitCompare(_, _)
codeUnitCompare(a, b) ==
    IF a = <<>> /\ b = <<>> THEN 0
    ELSE IF a = <<>> THEN -1
    ELSE IF b = <<>> THEN 1
    ELSE IF CharCode[Head(a)] < CharCode[Head(b)] THEN -1
    ELSE IF CharCode[Head(a)] > CharCode[Head(b)] THEN 1
    ELSE codeUnitCompare(Tail(a), Tail(b))

\* Array.prototype.sort() of an array of strings: by code units, and
\* stable, so an element goes after the smaller ones and after the equal
\* ones that precede it in the input
stringRank(seq, n) ==
    1 + Cardinality({ m \in DOMAIN seq :
                        \/ codeUnitCompare(seq[m], seq[n]) < 0
                        \/ codeUnitCompare(seq[m], seq[n]) = 0 /\ m < n })
sortStrings(seq) ==
    LET rank == [ n \in DOMAIN seq |-> stringRank(seq, n) ]
    IN  [ k \in DOMAIN seq |-> seq[CHOOSE n \in DOMAIN seq : rank[n] = k] ]

\* [...new Set(seq)]: first occurrences, in insertion order
RECURSIVE uniqueInOrder(_, _)
uniqueInOrder(seq, acc) ==
    IF seq = <<>> THEN acc
    ELSE uniqueInOrder(Tail(seq),
                       IF Head(seq) \in Range(acc) THEN acc ELSE Append(acc, Head(seq)))

\* Array.prototype.slice(start, end) with its clamping of negative and
\* too large indices; elements are numbered from 0 as in the source
sliceIndex(k, len) == IF k < 0 THEN (IF len + k < 0 THEN 0 ELSE len + k)
                      ELSE (IF k > len THEN len ELSE k)
slice(seq, start, end) ==
    LET from == sliceIndex(start, Len(seq))
        to == sliceIndex(end, Len(seq))
    IN  IF from >= to THEN <<>> ELSE SubSeq(seq, from + 1, to)

\* nullable strings
NullStr == [ isNull |-> TRUE, s |-> <<>> ]
Str(s) == [ isNull |-> FALSE, s |-> s ]
\* JavaScript truthiness of a nullable string
truthy(v) == ~v.isNull /\ v.s # <<>>

----------------------------------------------------------------------------
(* Regular expressions: the patterns of the source as syntax trees, and a  *)
(* matcher returning the set of positions where a match started at         *)
(* position n can end.                                                     *)

Cls(set) == [ t |-> "cls", set |-> set, parts |-> <<>> ]
Cat(parts) == [ t |-> "cat", set |-> {}, parts |-> parts ]
Opt(r) == [ t |-> "opt", set |-> {}, parts |-> << r >> ]
Star(r) == [ t |-> "star", set |-> {}, parts |-> << r >> ]
\* r{2,}
AtLeast2(r) == Cat(<< r, r, Star(r) >>)

RECURSIVE matchEnds(_, _, _)
RECURSIVE matchCat(_, _, _)
RECURSIVE matchStar(_, _, _, _)
matchEnds(r, s, from) ==
    IF r.t = "cls" THEN
        { n + 1 : n \in { m \in from : m < Len(s) /\ s[m + 1] \in r.set } }
    ELSE IF r.t = "cat" THEN matchCat(r.parts, s, from)
    ELSE IF r.t = "opt" THEN from \cup matchEnds(r.parts[1], s, from)
    ELSE matchStar(r.parts[1], s, from, from)
matchCat(parts, s, from) ==
    IF parts = <<>> \/ from = {} THEN from
    ELSE matchCat(Tail(parts), s, matchEnds(Head(parts), s, from))
matchStar(r, s, frontier, acc) ==
    LET next == matchEnds(r, s, frontier) \ acc
    IN  IF next = {} THEN acc ELSE matchStar(r, s, next, acc \cup next)

\* RegExp.prototype.test for a pattern anchored with ^ and $
test(r, s) == Len(s) \in matchEnds(r, s, {0})

Dot == Cls({ "." })

----------------------------------------------------------------------------
(* src/src/lib/crtsh.ts *)

COMMON_SUBDOMAINS ==
    << <<"w", "w", "w">>,
       <<"a", "p", "i">>,
       <<"d", "e", "v">>,
       <<"s", "t", "a", "g", "i", "n", "g">>,
       <<"t", "e", "s", "t">>,
       <<"a", "d", "m", "i", "n">>,
       <<"a", "p", "p">>,
       <<"m", "a", "i", "l">>,
       <<"c", "d", "n">>,
       <<"s", "t", "a", "t", "i", "c">>,
       <<"a", "s", "s", "e", "t", "s">>,
       <<"i", "m", "g">>,
       <<"i", "m", "a", "g", "e", "s">>,
       <<"m", "e", "d", "i", "a">>,
       <<"v", "i", "d", "e", "o">>,
       <<"b", "l", "o", "g">>,
       <<"s", "h", "o", "p">>,
       <<"s", "t", "o", "r", "e">>,
       <<"d", "o", "c", "s">>,
       <<"h", "e", "l", "p">>,
       <<"s", "u", "p", "p", "o", "r", "t">>,
       <<"s", "t", "a", "t", "u", "s">>,
       <<"m">>,
       <<"m", "o", "b", "i", "l", "e">>,
       <<"b", "e", "t", "a">>,
       <<"a", "l", "p", "h", "a">>,
       <<"d", "e", "m", "o">>,
       <<"s", "a", "n", "d", "b", "o", "x">>,
       <<"e", "u">>,
       <<"u", "s">>,
       <<"a", "p">>,
       <<"a", "s", "i", "a">>,
       <<"u", "k">>,
       <<"d", "e">>,
       <<"f", "r">>,
       <<"d", "b">>,
       <<"d", "a", "t", "a", "b", "a", "s", "e">>,
       <<"s", "q", "l">>,
       <<"m", "y", "s", "q", "l">>,
       <<"p", "o", "s", "t", "g", "r", "e", "s">>,
       <<"r", "e", "d", "i", "s">>,
       <<"m", "o", "n", "g", "o">>,
       <<"f", "t", "p">>,
       <<"s", "f", "t", "p">>,
       <<"s", "s", "h">>,
       <<"v", "p", "n">>,
       <<"p", "r", "o", "x", "y">>,
       <<"g", "a", "t", "e", "w", "a", "y">>,
       <<"a", "u", "t", "h">>,
       <<"l", "o", "g", "i", "n">>,
       <<"s", "s", "o">>,
       <<"o", "a", "u", "t", "h">>,
       <<"i", "d">>,
       <<"a", "c", "c", "o", "u", "n", "t", "s">>,
       <<"w", "s">>,
       <<"w", "e", "b", "s", "o", "c", "k", "e", "t">>,
       <<"s", "o", "c", "k", "e", "t">>,
       <<"r", "e", "a", "l", "t", "i", "m", "e">>,
       <<"l", "i", "v", "e">>,
       <<"s", "t", "r", "e", "a", "m">>,
       <<"i", "n", "t", "e", "r", "n", "a", "l">>,
       <<"i", "n", "t", "r", "a", "n", "e", "t">>,
       <<"c", "o", "r", "p">>,
       <<"o", "f", "f", "i", "c", "e">>,
       <<"p", "o", "r", "t", "a", "l">> >>

\* the part of the prefix table the model expands
PrefixTable == SubSeq(COMMON_SUBDOMAINS, 1, WordlistLen)

\* the names built without the dot between prefix and domain
generateWordlistSubdomainsNoDot(domain) ==
    [ n \in DOMAIN commonSubdomains |-> commonSubdomains[n] \o domain ]

\* the table overwritten by the names generated from it
tableAfterWordlistInPlace(domain) ==
    [ n \in DOMAIN commonSubdomains |->
        commonSubdomains[n] \o << "." >> \o domain ]

\* lines 89-91: Array.prototype.map builds a new array and leaves
\* COMMON_SUBDOMAINS as it is
tableAfterWordlist(domain) == commonSubdomains

\* lines 89-91: COMMON_SUBDOMAINS.map(sub => `${sub}.${domain}`)
generateWordlistSubdomains(domain) ==
    [ n \in DOMAIN commonSubdomains |->
        commonSubdomains[n] \o << "." >> \o domain ]

LowerAlnum == LowerSet \cup DigitSet

\* [x]([x-]*[x])?  for a character class x
Label(set) == Cat(<< Cls(set), Opt(Cat(<< Star(Cls(set \cup { "-" })), Cls(set) >>)) >>)

\* /^[a-z0-9]([a-z0-9-]*[a-z0-9])?(\.[a-z0-9]([a-z0-9-]*[a-z0-9])?)*$/
subdomainPattern ==
    Cat(<< Label(LowerAlnum), Star(Cat(<< Dot, Label(LowerAlnum) >>)) >>)

isValidSubdomain(subdomain) == test(subdomainPattern, subdomain)

\* JSON values as a body of crt.sh can hold them
JNull == [ k |-> "null", s |-> <<>>, items |-> <<>>, nv |-> <<>> ]
JNum == [ k |-> "number", s |-> <<>>, items |-> <<>>, nv |-> <<>> ]
JStr(s) == [ k |-> "string", s |-> s, items |-> <<>>, nv |-> <<>> ]
JArr(items) == [ k |-> "array", s |-> <<>>, items |-> items, nv |-> <<>> ]
\* a body that is not JSON: response.json() rejects
JNotJson == [ k |-> "not_json", s |-> <<>>, items |-> <<>>, nv |-> <<>> ]
\* an object without a name_value member
JObj == [ k |-> "object", s |-> <<>>, items |-> <<>>, nv |-> <<>> ]
\* an object whose name_value member is the JSON value v
JEntry(v) == [ k |-> "object", s |-> <<>>, items |-> <<>>, nv |-> << v >> ]

\* outcome of a piece of code: a value, or a thrown exception
Returned(v) == [ threw |-> FALSE, value |-> v ]
Threw == [ threw |-> TRUE, value |-> <<>> ]

\* the test without the comparison with the queried domain
keepNameAnyDomain(cleaned, domain) ==
    /\ cleaned # <<>>
    /\ ~startsWith(cleaned, << "*" >>)
    /\ isValidSubdomain(cleaned)

\* the test of lines 43-48 on one element of names
keepName(cleaned, domain) ==
    /\ cleaned # <<>>
    /\ ~startsWith(cleaned, << "*" >>)
    /\ endsWith(cleaned, toLowerCase(domain))
    /\ isValidSubdomain(cleaned)

\* lines 39-51: the inner loop over entry.name_value.split('\n'); set is
\* the Set in insertion order
RECURSIVE addNames(_, _, _)
addNames(names, domain, set) ==
    IF names = <<>> THEN set
    ELSE LET cleaned == toLowerCase(trim(Head(names)))
         IN  addNames(Tail(names), domain,
                      IF keepName(cleaned, domain) /\ cleaned \notin Range(set)
                      THEN Append(set, cleaned) ELSE set)

\* lines 37-52: the loop over the entries; reading name_value of null or
\* undefined, and calling split on a value that is not a string, throw
RECURSIVE addEntries(_, _, _)
addEntries(entries, domain, set) ==
    IF entries = <<>> THEN Returned(set)
    ELSE LET entry == Head(entries)
         IN  IF entry.k # "object" \/ entry.nv = <<>> THEN Threw
             ELSE IF entry.nv[1].k # "string" THEN Threw
             ELSE addEntries(Tail(entries), domain,
                             addNames(split(entry.nv[1].s, "\n"), domain, set))

\* the values "for (const entry of data)" iterates over; a string yields
\* its characters, null, numbers and plain objects are not iterable
iterate(data) ==
    IF data.k = "array" THEN Returned(data.items)
    ELSE IF data.k = "string" THEN Returned([ n \in DOMAIN data.s |-> JStr(<< data.s[n] >>) ])
    ELSE Threw

\* lines 32-54, from the parsed body to the return statement
extractSubdomains(data, domain) ==
    LET it == iterate(data)
    IN  IF it.threw THEN Threw
        ELSE LET added == addEntries(it.value, domain, <<>>)
             IN  IF added.threw THEN Threw ELSE Returned(sortStrings(added.value))

\* lines 19-58: the try block with the outcome of the request, and the
\* catch block that turns every exception into an empty list.
\* fetched is one of "network_error", "timeout", "http_error", "ok";
\* body is "not_json" or a JSON value
tryFetch(fetched, body, domain) ==
    IF fetched \in { "network_error", "timeout" } THEN Threw
    ELSE IF fetched = "http_error" THEN Returned(<<>>)
    ELSE IF body.k = "not_json" THEN Threw
    ELSE extractSubdomains(body, domain)

\* a catch block that throws the exception again
catchFetchRethrow(outcome) == outcome

catchFetch(outcome) == IF outcome.threw THEN Returned(<<>>) ELSE outcome

\* the function without its try and catch
fetchWithoutCatch(fetched, body, domain) == tryFetch(fetched, body, domain)

fetchSubdomainsFromCrtSh(fetched, body, domain) == catchFetch(tryFetch(fetched, body, domain))

----------------------------------------------------------------------------
(* src/src/lib/cloudflare.ts *)

CLOUDFLARE_IPV4_RANGES ==
    << <<"1", "0", "3", ".", "2", "1", ".", "2", "4", "4", ".", "0", "/", "2", "2">>,
       <<"1", "0", "3", ".", "2", "2", ".", "2", "0", "0", ".", "0", "/", "2", "2">>,
       <<"1", "0", "3", ".", "3", "1", ".", "4", ".", "0", "/", "2", "2">>,
       <<"1", "0", "4", ".", "1", "6", ".", "0", ".", "0", "/", "1", "3">>,
       <<"1", "0", "4", ".", "2", "4", ".", "0", ".", "0", "/", "1", "4">>,
       <<"1", "0", "8", ".", "1", "6", "2", ".", "1", "9", "2", ".", "0", "/", "1", "8">>,
       <<"1", "3", "1", ".", "0", ".", "7", "2", ".", "0", "/", "2", "2">>,
       <<"1", "4", "1", ".", "1", "0", "1", ".", "6", "4", ".", "0", "/", "1", "8">>,
       <<"1", "6", "2", ".", "1", "5", "8", ".", "0", ".", "0", "/", "1", "5">>,
       <<"1", "7", "2", ".", "6", "4", ".", "0", ".", "0", "/", "1", "3">>,
       <<"1", "7", "3", ".", "2", "4", "5", ".", "4", "8", ".", "0", "/", "2", "0">>,
       <<"1", "8", "8", ".", "1", "1", "4", ".", "9", "6", ".", "0", "/", "2", "0">>,
       <<"1", "9", "0", ".", "9", "3", ".", "2", "4", "0", ".", "0", "/", "2", "0">>,
       <<"1", "9", "7", ".", "2", "3", "4", ".", "2", "4", "0", ".", "0", "/", "2", "2">>,
       <<"1", "9", "8", ".", "4", "1", ".", "1", "2", "8", ".", "0", "/", "1", "7">> >>

CLOUDFLARE_IPV6_RANGES ==
    << <<"2", "4", "0", "0", ":", "c", "b", "0", "0", ":", ":", "/", "3", "2">>,
       <<"2", "6", "0", "6", ":", "4", "7", "0", "0", ":", ":", "/", "3", "2">>,
       <<"2", "8", "0", "3", ":", "f", "8", "0", "0", ":", ":", "/", "3", "2">>,
       <<"2", "4", "0", "5", ":", "b", "5", "0", "0", ":", ":", "/", "3", "2">>,
       <<"2", "4", "0", "5", ":", "8", "1", "0", "0", ":", ":", "/", "3", "2">>,
       <<"2", "a", "0", "6", ":", "9", "8", "c", "0", ":", ":", "/", "2", "9">>,
       <<"2", "c", "0", "f", ":", "f", "2", "4", "8", ":", ":", "/", "3", "2">> >>

\* JavaScript numbers: an integer or NaN
Num(v) == [ nan |-> FALSE, v |-> v ]
NaN == [ nan |-> TRUE, v |-> 0 ]

RECURSIVE decimal(_, _)
decimal(s, acc) ==
    IF s = <<>> THEN acc ELSE decimal(Tail(s), 10 * acc + (IndexOf(Digits, Head(s)) - 1))

\* Number(string) on strings of digits, the empty string and the rest
Number(s) == IF \A n \in DOMAIN s : s[n] \in DigitSet THEN Num(decimal(s, 0)) ELSE NaN

\* parseInt(string, 10): the leading digits
RECURSIVE leadingDigits(_)
leadingDigits(s) ==
    IF s # <<>> /\ Head(s) \in DigitSet THEN << Head(s) >> \o leadingDigits(Tail(s)) ELSE <<>>
parseInt(s) == IF leadingDigits(s) = <<>> THEN NaN ELSE Num(decimal(leadingDigits(s), 0))

RECURSIVE pow2(_)
pow2(n) == IF n = 0 THEN 1 ELSE 2 * pow2(n - 1)

\* x << n for 0 < n < 32: the low 32 - n bits of x move up, the result is
\* a signed 32-bit integer; NaN and undefined count as 0
shl(x, n) ==
    IF x.nan THEN Num(0)
    ELSE LET low == x.v % pow2(32 - n)
         IN  Num(IF low >= pow2(31 - n) THEN (low - pow2(32 - n)) * pow2(n) ELSE low * pow2(n))

\* a + b
plus(a, b) == IF a.nan \/ b.nan THEN NaN ELSE Num(a.v + b.v)

\* a & b on signed 32-bit integers (two's complement)
RECURSIVE bitAnd(_, _)
bitAnd(a, b) ==
    IF a = 0 \/ b = 0 THEN 0
    ELSE IF a = -1 THEN b
    ELSE IF b = -1 THEN a
    ELSE 2 * bitAnd(a \div 2, b \div 2) + (a % 2) * (b % 2)
and32(a, b) == Num(bitAnd(IF a.nan THEN 0 ELSE a.v, IF b.nan THEN 0 ELSE b.v))

\* ~a
not32(a) == Num(IF a.nan THEN -1 ELSE -a.v - 1)

\* array element, undefined (which converts to NaN) past the end
at(parts, n) == IF n \in DOMAIN parts THEN parts[n] ELSE NaN

ipToNumber(ip) ==
    LET parts == [ n \in DOMAIN split(ip, ".") |-> Number(split(ip, ".")[n]) ]
    IN  plus(plus(plus(shl(at(parts, 1), 24), shl(at(parts, 2), 16)),
                  shl(at(parts, 3), 8)), at(parts, 4))

\* the mask one bit longer than the prefix: ~((1 << (31 - prefix)) - 1)
isIpInCidrLongMask(ip, cidr) ==
    LET rangeIp == split(cidr, "/")[1]
        prefix == parseInt(split(cidr, "/")[2])
        mask == not32(plus(shl(Num(1), 31 - prefix.v), Num(-1)))
        ipNum == ipToNumber(ip)
        rangeNum == ipToNumber(rangeIp)
    IN  and32(ipNum, mask) = and32(rangeNum, mask)

\* the mask without its complement: the host bits are compared
isIpInCidrHostBits(ip, cidr) ==
    LET rangeIp == split(cidr, "/")[1]
        prefix == parseInt(split(cidr, "/")[2])
        mask == plus(shl(Num(1), 32 - prefix.v), Num(-1))
        ipNum == ipToNumber(ip)
        rangeNum == ipToNumber(rangeIp)
    IN  and32(ipNum, mask) = and32(rangeNum, mask)

isIpInCidr(ip, cidr) ==
    LET rangeIp == split(cidr, "/")[1]
        prefix == parseInt(split(cidr, "/")[2])
        mask == not32(plus(shl(Num(1), 32 - prefix.v), Num(-1)))
        ipNum == ipToNumber(ip)
        rangeNum == ipToNumber(rangeIp)
    IN  and32(ipNum, mask) = and32(rangeNum, mask)

\* Array.prototype.join
RECURSIVE join(_, _)
join(parts, sep) ==
    IF parts = <<>> THEN <<>>
    ELSE IF Len(parts) = 1 THEN parts[1]
    ELSE parts[1] \o << sep >> \o join(Tail(parts), sep)

\* prefix.split(':').slice(0, 2).join(':') of a range
ipv6TextPrefix(range) == join(slice(split(split(range, "/")[1], ":"), 0, 2), ":")

isCloudflare(ip) ==
    IF ~truthy(ip) THEN FALSE
    ELSE IF ":" \in Range(ip.s) THEN
        \E n \in DOMAIN CLOUDFLARE_IPV6_RANGES :
            startsWith(ip.s, ipv6TextPrefix(CLOUDFLARE_IPV6_RANGES[n]))
    ELSE \E n \in DOMAIN CLOUDFLARE_IPV4_RANGES : isIpInCidr(ip.s, CLOUDFLARE_IPV4_RANGES[n])

\* outcome of a call that raised
Raised == [ threw |-> TRUE, value |-> FALSE ]

\* the function without the test of line 64: null.includes raises
callIsCloudflareUnguarded(ip) ==
    IF ip.isNull THEN Raised ELSE Returned(isCloudflare(ip))

\* lines 63-86: a call of isCloudflare; none of its statements can raise
\* for null or for a string
callIsCloudflare(ip) == Returned(isCloudflare(ip))

----------------------------------------------------------------------------
(* src/src/lib/dns-resolver.ts *)

\* answers the DNS can give
Addr_104_16_1_1 == << "1", "0", "4", ".", "1", "6", ".", "1", ".", "1" >>
Addr_8_8_8_8 == << "8", ".", "8", ".", "8", ".", "8" >>
Addr_2606_4700__1 == << "2", "6", "0", "6", ":", "4", "7", "0", "0", ":", ":", "1" >>
Addrs4 == { Addr_104_16_1_1, Addr_8_8_8_8 }
Addrs6 == { Addr_2606_4700__1 }

\* a settled dns.resolve4 / dns.resolve6 promise: rejected, or fulfilled
\* with a list of addresses
DnsRejected == [ ok |-> FALSE, addresses |-> <<>> ]
DnsFulfilled(addresses) == [ ok |-> TRUE, addresses |-> addresses ]
Answers4 == { DnsRejected, DnsFulfilled(<<>>) } \cup { DnsFulfilled(<< a >>) : a \in Addrs4 }
Answers6 == { DnsRejected, DnsFulfilled(<<>>) } \cup { DnsFulfilled(<< a >>) : a \in Addrs6 }

\* interface DnsResult
DnsResult(subdomain, ip, ipv6) == [ subdomain |-> subdomain, ip |-> ip, ipv6 |-> ipv6 ]
NoResult == DnsResult(<<>>, NullStr, NullStr)

\* resolveSubdomains called without its third argument
NoCallback == [ given |-> FALSE, calls |-> <<>> ]

\* a resolveSingle call: not started, awaiting resolve4 ("a"), awaiting
\* resolve6 ("aaaa") or returned ("done"), with its result object
NoTask == [ phase |-> "none", result |-> NoResult ]
\* a callback of chunk.map: not started, awaiting the race ("racing") or
\* returned ("settled") with value; shared tells that the value is the very
\* object resolveSingle writes its addresses to (line 21), not a copy
NoMapper == [ st |-> "none", value |-> NoResult, shared |-> FALSE ]

Total == Len(subdomains)

\* the chunk cut one element short: slice(i, i + concurrency - 1)
chunkOfShort(subs, from, conc) ==
    LET lo == sliceIndex(from, Len(subs))
        hi == sliceIndex(from + conc - 1, Len(subs))
    IN  IF lo >= hi THEN {} ELSE (lo + 1) .. hi

\* indices (from 1) of the elements of subdomains.slice(i, i + concurrency)
chunkOf(subs, from, conc) ==
    LET lo == sliceIndex(from, Len(subs))
        hi == sliceIndex(from + conc, Len(subs))
    IN  IF lo >= hi THEN {} ELSE (lo + 1) .. hi

chunk == chunkOf(subdomains, i, concurrency)

\* DNS queries issued and not yet answered
inFlight == { n \in DOMAIN task : task[n].phase \in { "a", "aaaa" } }

\* Promise.all of the current chunk is rejected: one of its callbacks is
joinRejected == rpc = "await" /\ \E n \in chunk : mapper[n].st = "rejected"

\* the join taken as soon as one callback of the chunk has settled
joinReadyFirst ==
    /\ rpc = "await"
    /\ (joinRejected \/ \E n \in chunk : mapper[n].st = "settled")

\* Promise.all of the current chunk is settled and its continuation is
\* queued as a microtask
joinReady ==
    /\ rpc = "await"
    /\ (joinRejected \/ \A n \in chunk : mapper[n].st = "settled")

\* the continuation of "await resolveSubdomains" in POST is queued
postReady == ppc = "resolve" /\ rpc \in { "returned", "rejected" }

\* tasks of the event loop (DNS answers, timers, HTTP responses) run only
\* when no microtask is queued
microtaskQueued == joinReady \/ postReady

\* lines 20-29: resolveSingle up to its first await
startSingle(subdomain) == [ phase |-> "a", result |-> DnsResult(subdomain, NullStr, NullStr) ]

\* lines 30-32 and 40-42: the address kept from an answer
firstAddress(answer, old) ==
    IF answer.ok /\ Len(answer.addresses) > 0 THEN Str(answer.addresses[1]) ELSE old

\* line 81: the record returned when the race is lost to the timer
timeoutRecord(subdomain) == DnsResult(subdomain, NullStr, NullStr)

\* lines 75-77: the timer rejects the race with Error('Timeout')
raceTimedOut == Threw

\* the callback whose catch clause throws the error again
catchRaceRethrow(subdomain, raced) == raced

\* lines 73-82: try { return await Promise.race(...) } catch { return the
\* null record }: the outcome of the callback for the outcome of the race
catchRace(subdomain, raced) ==
    IF raced.threw THEN Returned(timeoutRecord(subdomain)) ELSE raced

\* the callback handing out resolveSingle's result object on every path
isLookupObjectAlways(raced) == TRUE

\* lines 74 and 81: the value of the callback is the object resolveSingle
\* returned when the race was won by it, and a new object literal when the
\* race was lost to the timer
isLookupObject(raced) == ~raced.threw

\* the promise of a callback of chunk.map once the callback has ended
settled(outcome, shared) ==
    IF outcome.threw THEN [ st |-> "rejected", value |-> NoResult, shared |-> FALSE ]
    ELSE [ st |-> "settled", value |-> outcome.value, shared |-> shared ]

\* lines 31 and 41: an assignment to a field of resolveSingle's result is
\* seen through every reference to that object: the callback's value
mapperAfterWrite(n, written) ==
    IF mapper[n].shared THEN [ mapper EXCEPT ![n].value = written ] ELSE mapper

\* and, once pushed (line 92), the element of results
resultsAfterWrite(n, written) ==
    IF mapper[n].shared /\ n \in DOMAIN results
    THEN [ results EXCEPT ![n] = written ] ELSE results

\* lines 66-69 and 94: the loop test, and either the launch of the next
\* chunk up to "await Promise.all" or the return of results
loopHead(subs, conc, newI, oldTask, oldMapper) ==
    IF newI < Len(subs) THEN
        LET c == chunkOf(subs, newI, conc)
        IN  /\ rpc' = "await"
            /\ task' = [ n \in DOMAIN oldTask |->
                           IF n \in c THEN startSingle(subs[n]) ELSE oldTask[n] ]
            /\ mapper' = [ n \in DOMAIN oldMapper |->
                             IF n \in c THEN [ st |-> "racing", value |-> NoResult,
                                               shared |-> FALSE ]
                             ELSE oldMapper[n] ]
            /\ dnsIssued' = dnsIssued + Cardinality(c)
    ELSE
        /\ rpc' = "returned"
        /\ task' = oldTask
        /\ mapper' = oldMapper
        /\ dnsIssued' = dnsIssued

\* the callback called before completed is counted up
notifyBeforeCount(done) ==
    IF onProgress.given
    THEN [ onProgress EXCEPT !.calls = Append(@, << done - 1, Total >>) ]
    ELSE onProgress

\* line 85: onProgress?.(completed, subdomains.length), done being the
\* value of completed after line 84
notify(done) ==
    IF onProgress.given
    THEN [ onProgress EXCEPT !.calls = Append(@, << done, Total >>) ]
    ELSE onProgress

\* lines 56-69: the call of resolveSubdomains up to its first await
callResolveSubdomains(subs, conc, callback) ==
    /\ subdomains' = subs
    /\ onProgress' = [ given |-> callback, calls |-> <<>> ]
    /\ concurrency' = conc
    /\ results' = <<>>
    /\ completed' = 0
    /\ i' = 0
    /\ loopHead(subs, conc, 0, [ n \in DOMAIN subs |-> NoTask ],
                [ n \in DOMAIN subs |-> NoMapper ])

\* lines 29-39: dns.resolve4 of candidate n settles; resolveSingle keeps the
\* first address and issues dns.resolve6
Resolve4Settled(n, answer) ==
    /\ ~microtaskQueued
    /\ task[n].phase = "a"
    /\ LET written == [ task[n].result EXCEPT !.ip = firstAddress(answer, @) ]
       IN  /\ task' = [ task EXCEPT ![n] = [ phase |-> "aaaa", result |-> written ] ]
           /\ mapper' = mapperAfterWrite(n, written)
           /\ results' = resultsAfterWrite(n, written)
    /\ dnsIssued' = dnsIssued + 1
    /\ UNCHANGED << subdomains, concurrency, i, completed, rpc, onProgress >>
    /\ UNCHANGED << postVars, probeVars, moduleVars, otherVars >>

\* lines 39-47 and 73-87: dns.resolve6 of candidate n settles and
\* resolveSingle returns; if the race is still open the callback returns
\* the result and counts the candidate
Resolve6Settled(n, answer) ==
    /\ ~microtaskQueued
    /\ task[n].phase = "aaaa"
    /\ LET result == [ task[n].result EXCEPT !.ipv6 = firstAddress(answer, @) ]
       IN  /\ task' = [ task EXCEPT ![n] = [ phase |-> "done", result |-> result ] ]
           /\ IF mapper[n].st = "racing"
              THEN /\ mapper' = [ mapper EXCEPT ![n] =
                                     settled(catchRace(subdomains[n], Returned(result)),
                                             isLookupObject(Returned(result))) ]
                   /\ completed' = completed + 1
                   /\ onProgress' = notify(completed + 1)
                   /\ UNCHANGED results
              ELSE /\ mapper' = mapperAfterWrite(n, result)
                   /\ results' = resultsAfterWrite(n, result)
                   /\ UNCHANGED << completed, onProgress >>
    /\ UNCHANGED << subdomains, concurrency, i, rpc, dnsIssued >>
    /\ UNCHANGED << postVars, probeVars, moduleVars, otherVars >>

\* lines 75-77 and 80-87: the 3000 ms timer of candidate n fires while the
\* race is open; the race rejects, the callback returns the null record
\* and counts the candidate.  (A timer firing after the race is settled
\* changes nothing.)
LookupTimeout(n) ==
    /\ ~microtaskQueued
    /\ mapper[n].st = "racing"
    /\ mapper' = [ mapper EXCEPT ![n] =
                      settled(catchRace(subdomains[n], raceTimedOut),
                              isLookupObject(raceTimedOut)) ]
    /\ completed' = completed + 1
    /\ onProgress' = notify(completed + 1)
    /\ UNCHANGED << subdomains, concurrency, i, results, rpc, task, dnsIssued >>
    /\ UNCHANGED << postVars, probeVars, moduleVars, otherVars >>

\* the values of the chunk in reverse order
RECURSIVE chunkResultsReversed(_, _)
chunkResultsReversed(from, to) ==
    IF from > to THEN <<>>
    ELSE << mapper[to].value >> \o chunkResultsReversed(from, to - 1)

\* the values of Promise.all for the current chunk, in chunk order
RECURSIVE chunkResults(_, _)
chunkResults(from, to) ==
    IF from > to THEN <<>> ELSE << mapper[from].value >> \o chunkResults(from + 1, to)

\* the loop advancing by one candidate: i++
nextIndexByOne(k, step) == k + 1

\* line 66: i += concurrency.  With a negative step i is followed down to
\* -MaxRewind and held there: from -subdomains.length downwards every slice
\* is empty and the loop test stays true, so the loop goes on unchanged
nextIndex(k, step) == IF k + step < 0 - MaxRewind THEN k ELSE k + step

\* lines 91-92, 66-69 and 94: Promise.all of the chunk is settled.  If it
\* is rejected the await throws and resolveSubdomains rejects; otherwise
\* push the chunk's results, advance i, and launch the next chunk or return.
ChunkJoin ==
    /\ joinReady
    /\ IF joinRejected THEN
           /\ rpc' = "rejected"
           /\ UNCHANGED << results, i, task, mapper, dnsIssued >>
       ELSE
           LET pushed == results \o
                         (IF chunk = {} THEN <<>>
                          ELSE chunkResults(sliceIndex(i, Total) + 1,
                                            sliceIndex(i + concurrency, Total)))
           IN  /\ results' = pushed
               /\ i' = nextIndex(i, concurrency)
               /\ loopHead(subdomains, concurrency, nextIndex(i, concurrency),
                           task, mapper)
    /\ UNCHANGED << subdomains, concurrency, completed, onProgress >>
    /\ UNCHANGED << postVars, probeVars, moduleVars, otherVars >>

----------------------------------------------------------------------------
(* src/src/app/api/scan/route.ts *)

UpperLowerAlnum == LowerSet \cup UpperSet \cup DigitSet

\* the pattern without its final \.[a-zA-Z]{2,}
domainPatternNoTld ==
    Cat(<< Label(UpperLowerAlnum), Star(Cat(<< Dot, Label(UpperLowerAlnum) >>)) >>)

\* the pattern with a final label of one letter or more: [a-zA-Z]+
domainPatternShortTld ==
    Cat(<< Label(UpperLowerAlnum),
           Star(Cat(<< Dot, Label(UpperLowerAlnum) >>)),
           Dot,
           Cls(LowerSet \cup UpperSet),
           Star(Cls(LowerSet \cup UpperSet)) >>)

\* /^[a-zA-Z0-9]([a-zA-Z0-9-]*[a-zA-Z0-9])?(\.[a-zA-Z0-9]([a-zA-Z0-9-]*[a-zA-Z0-9])?)*\.[a-zA-Z]{2,}$/
domainPattern ==
    Cat(<< Label(UpperLowerAlnum),
           Star(Cat(<< Dot, Label(UpperLowerAlnum) >>)),
           Dot,
           AtLeast2(Cls(LowerSet \cup UpperSet)) >>)

\* the concurrency POST passes to resolveSubdomains
ScanConcurrency == 50

\* a request body: text that is not JSON, the JSON value null, or an object
\* whose member domain is absent, a number or a string
Request(kind, domain) == [ kind |-> kind, domain |-> domain ]
NoRequest == Request("none", <<>>)

\* interface ScanResult
ScanResult(subdomain, ip, cloudflare) ==
    [ subdomain |-> subdomain, ip |-> ip, cloudflare |-> cloudflare ]

Stats(total, cloudflare, noIp) == [ total |-> total, cloudflare |-> cloudflare, no_ip |-> noIp ]

\* what NextResponse.json sends; the clock read by scan_date is not modelled
Response(status, error, domain, stats, subs) ==
    [ status |-> status, error |-> error, domain |-> domain, stats |-> stats,
      subdomains |-> subs ]
NoResponse == Response(0, "", <<>>, Stats(0, 0, 0), <<>>)
ErrorResponse(status, error) == Response(status, error, <<>>, Stats(0, 0, 0), <<>>)

\* collation weight of a character in String.prototype.localeCompare:
\* punctuation before digits before letters, letters without regard to case
collationWeight ==
    [ c \in Chars |->
        IF c \in LowerSet \cup UpperSet THEN 100 + IndexOf(LowerLetters, LowerChar[c])
        ELSE IF c \in DigitSet THEN 50 + IndexOf(Digits, c)
        ELSE IF c = "_" THEN 1
        ELSE IF c = "-" THEN 2
        ELSE IF c = ":" THEN 3
        ELSE IF c = "." THEN 4
        ELSE IF c = "*" THEN 5
        ELSE IF c = "/" THEN 6
        ELSE 0 ]

RECURSIVE primaryCompare(_, _)
primaryCompare(a, b) ==
    IF a = <<>> /\ b = <<>> THEN 0
    ELSE IF a = <<>> THEN -1
    ELSE IF b = <<>> THEN 1
    ELSE IF collationWeight[Head(a)] < collationWeight[Head(b)] THEN -1
    ELSE IF collationWeight[Head(a)] > collationWeight[Head(b)] THEN 1
    ELSE primaryCompare(Tail(a), Tail(b))

\* among strings equal but for case, the first difference decides: lower
\* case before upper case
RECURSIVE caseCompare(_, _)
caseCompare(a, b) ==
    IF a = <<>> THEN 0
    ELSE IF Head(a) = Head(b) THEN caseCompare(Tail(a), Tail(b))
    ELSE IF Head(a) \in LowerSet THEN -1 ELSE 1

localeCompare(a, b) ==
    IF primaryCompare(a, b) # 0 THEN primaryCompare(a, b) ELSE caseCompare(a, b)

\* the comparator without its two tests of ip
compareByNameOnly(a, b) == localeCompare(a.subdomain, b.subdomain)

\* the comparator with the two names exchanged in its last line
compareResultsDescending(a, b) ==
    IF truthy(a.ip) /\ ~truthy(b.ip) THEN -1
    ELSE IF ~truthy(a.ip) /\ truthy(b.ip) THEN 1
    ELSE localeCompare(b.subdomain, a.subdomain)

\* lines 75-79: the comparator of results.sort
compareResults(a, b) ==
    IF truthy(a.ip) /\ ~truthy(b.ip) THEN -1
    ELSE IF ~truthy(a.ip) /\ truthy(b.ip) THEN 1
    ELSE localeCompare(a.subdomain, b.subdomain)

\* lines 75-79: results.sort with the comparator; the sort is stable
resultRank(seq, n) ==
    1 + Cardinality({ m \in DOMAIN seq :
                        \/ compareResults(seq[m], seq[n]) < 0
                        \/ compareResults(seq[m], seq[n]) = 0 /\ m < n })
sortResults(seq) ==
    LET rank == [ n \in DOMAIN seq |-> resultRank(seq, n) ]
    IN  [ k \in DOMAIN seq |-> seq[CHOOSE n \in DOMAIN seq : rank[n] = k] ]

\* isCloudflare on the values the ip field of a DnsResult can hold,
\* evaluated once
cloudflareOf == [ ip \in { NullStr } \cup { Str(a) : a \in Addrs4 } |-> isCloudflare(ip) ]

\* lines 68-72: dnsResults.map
classify(dnsResults) ==
    [ n \in DOMAIN dnsResults |->
        ScanResult(dnsResults[n].subdomain, dnsResults[n].ip, cloudflareOf[dnsResults[n].ip]) ]

\* the statistics with no_ip counting the entries that have an address
computeStatsResolved(sorted) ==
    Stats(Len(sorted),
          Cardinality({ n \in DOMAIN sorted : sorted[n].cloudflare }),
          Cardinality({ n \in DOMAIN sorted : truthy(sorted[n].ip) }))

\* lines 82-86: the lengths of the array and of its two filters
computeStats(sorted) ==
    Stats(Len(sorted),
          Cardinality({ n \in DOMAIN sorted : sorted[n].cloudflare }),
          Cardinality({ n \in DOMAIN sorted : ~truthy(sorted[n].ip) }))

\* lines 68-98: from the resolver's records to the response
buildResponse(domain, dnsResults) ==
    LET sorted == sortResults(classify(dnsResults))
    IN  Response(200, "", domain, computeStats(sorted), sorted)

\* the two lists concatenated and sorted without the Set
combineNoDedup(ct, wordlist) == sortStrings(ct \o wordlist)

\* line 60: [...new Set([...ctSubdomains, ...wordlistSubdomains])].sort()
combine(ct, wordlist) == sortStrings(uniqueInOrder(ct \o wordlist, <<>>))

\* lines 99-105: the catch block of POST
internalError == ErrorResponse(500, "Internal server error")

\* lines 29-53: read the body, validate the domain and, if it is valid,
\* issue the crt.sh request
PostRequest ==
    /\ ppc = "start"
    /\ IF request.kind \in { "invalid_json", "null" } THEN
           /\ response' = internalError
           /\ ppc' = "done"
           /\ UNCHANGED ctFetches
       ELSE IF request.kind # "string" \/ request.domain = <<>> THEN
           /\ response' = ErrorResponse(400, "Domain is required")
           /\ ppc' = "done"
           /\ UNCHANGED ctFetches
       ELSE IF ~test(domainPattern, request.domain) THEN
           /\ response' = ErrorResponse(400, "Invalid domain format")
           /\ ppc' = "done"
           /\ UNCHANGED ctFetches
       ELSE
           /\ ctFetches' = ctFetches + 1
           /\ ppc' = "fetch"
           /\ UNCHANGED response
    /\ UNCHANGED << request, ctOutcome, ctSubdomains, allSubdomains >>
    /\ UNCHANGED << resolverVars, probeVars, moduleVars, otherVars >>

\* lines 53-65: fetchSubdomainsFromCrtSh has returned (or thrown); generate
\* the wordlist, combine, and call resolveSubdomains up to its first await
afterDiscovery(outcome) ==
    IF outcome.threw THEN
        /\ response' = internalError
        /\ ppc' = "done"
        /\ UNCHANGED << ctSubdomains, allSubdomains, resolverVars, moduleVars >>
    ELSE
        LET all == combine(outcome.value, generateWordlistSubdomains(request.domain))
        IN  /\ ctSubdomains' = outcome.value
            /\ commonSubdomains' = tableAfterWordlist(request.domain)
            /\ allSubdomains' = all
            /\ callResolveSubdomains(all, ScanConcurrency, FALSE)
            /\ ppc' = "resolve"
            /\ UNCHANGED response

\* bodies crt.sh answers with for a query about domain d
name(label, d) == label \o << "." >> \o d
CtBodies(d) ==
    { JNotJson, JNull, JNum, JObj, JStr(<<>>), JStr(<< "x" >>),
      JArr(<<>>),
      JArr(<< JNum >>),
      JArr(<< JObj >>),
      JArr(<< JEntry(JNum) >>),
      JArr(<< JEntry(JStr(name(<< "m" >>, toLowerCase(d)))), JNull >>),
      JArr(<< JEntry(JStr(name(<< "w", "w", "w" >>, toLowerCase(d)) \o << "\n" >>
                          \o name(<< "*" >>, toLowerCase(d)))) >>),
      JArr(<< JEntry(JStr(<< " " >> \o name(<< "M" >>, d) \o << " " >>)),
              JEntry(JStr(name(<< "m" >>, d) \o << "\n" >> \o name(<< "m", "_" >>, d)
                          \o (IF d = toLowerCase(d)
                              THEN << "\n" >> \o name(<< "0" >>, d) ELSE <<>>))) >>) }

\* a body of the shape the discoverer expects: an array of objects with a
\* string name_value
wellShaped(body) ==
    /\ body.k = "array"
    /\ \A n \in DOMAIN body.items :
          /\ body.items[n].k = "object"
          /\ body.items[n].nv # <<>>
          /\ body.items[n].nv[1].k = "string"

\* record of how the crt.sh request ended and what the discoverer did
settledOutcome(fetched, body, outcome) ==
    [ kind |-> IF fetched # "ok" THEN fetched
               ELSE IF body.k = "not_json" THEN "not_json"
               ELSE IF ~wellShaped(body) THEN "bad_shape"
               ELSE "ok",
      settled |-> TRUE,
      threw |-> outcome.threw,
      returned |-> outcome.value ]

\* the scan asking crt.sh again when the fetch did not end with an OK status
FetchSettledRetry(fetched) ==
    /\ ppc = "fetch"
    /\ ~microtaskQueued
    /\ IF fetched = "ok" THEN
           /\ ppc' = "body"
           /\ UNCHANGED ctFetches
       ELSE
           /\ ctFetches < 3
           /\ ctFetches' = ctFetches + 1
           /\ ppc' = "fetch"
    /\ UNCHANGED << ctOutcome, response, ctSubdomains, allSubdomains, resolverVars >>
    /\ UNCHANGED << request, probeVars, moduleVars, otherVars >>

\* crtsh.ts lines 20-30 and 55-58: the fetch promise settles
FetchSettled(fetched) ==
    /\ ppc = "fetch"
    /\ ~microtaskQueued
    /\ IF fetched = "ok" THEN
           /\ ppc' = "body"
           /\ UNCHANGED << ctOutcome, response, ctSubdomains, allSubdomains, resolverVars,
                           moduleVars >>
       ELSE
           LET outcome == fetchSubdomainsFromCrtSh(fetched, JNull, request.domain)
           IN  /\ ctOutcome' = settledOutcome(fetched, JNull, outcome)
               /\ afterDiscovery(outcome)
    /\ UNCHANGED << request, ctFetches, probeVars, otherVars >>

\* crtsh.ts lines 32-58: the response.json() promise settles, with one of
\* bodies as the answer of crt.sh
BodySettled(bodies) ==
    /\ ppc = "body"
    /\ ~microtaskQueued
    /\ \E body \in bodies :
        LET outcome == fetchSubdomainsFromCrtSh("ok", body, request.domain)
        IN  /\ ctOutcome' = settledOutcome("ok", body, outcome)
            /\ afterDiscovery(outcome)
    /\ UNCHANGED << request, ctFetches, probeVars, otherVars >>

\* lines 65-105: resolveSubdomains has settled; if it rejected the catch
\* clause answers 500, otherwise classify, sort, count and
\* respond
PostRespond ==
    /\ postReady
    /\ response' = IF rpc = "rejected" THEN internalError
                   ELSE buildResponse(request.domain, results)
    /\ ppc' = "done"
    /\ UNCHANGED << request, ctFetches, ctOutcome, ctSubdomains, allSubdomains >>
    /\ UNCHANGED << resolverVars, probeVars, moduleVars, otherVars >>

----------------------------------------------------------------------------
(* Inputs *)

Idle ==
    /\ subdomains = <<>>
    /\ concurrency = 0
    /\ i = 0
    /\ results = <<>>
    /\ completed = 0
    /\ rpc = "idle"
    /\ task = <<>>
    /\ mapper = <<>>
    /\ dnsIssued = 0
    /\ onProgress = NoCallback

\* the second invocation: not there
NoOther == [ pc |-> "none", domain |-> <<>>, ct |-> <<>>, all |-> <<>>, ips |-> <<>>,
             response |-> NoResponse ]

NoOutcome == [ kind |-> "none", settled |-> FALSE, threw |-> FALSE, returned |-> <<>> ]

NoPost ==
    /\ request = NoRequest
    /\ ppc = "none"
    /\ response = NoResponse
    /\ ctFetches = 0
    /\ ctOutcome = NoOutcome
    /\ ctSubdomains = <<>>
    /\ allSubdomains = <<>>

NoProbe == [ fn |-> "none", arg |-> <<>> ]
Pending == [ done |-> FALSE, value |-> FALSE ]
Done(v) == [ done |-> TRUE, value |-> v ]

\* domains sent to POST /api/scan
Domain_ab_co == << "a", "b", ".", "c", "o" >>
Domain_Ab_CO == << "A", "b", ".", "C", "O" >>
Domain_ab == << "a", "b" >>
Domain_a_co == << "a", "-", ".", "c", "o" >>
Domain_ab_c1 == << "a", "b", ".", "c", "1" >>

ScanDomains == { <<>>, Domain_ab_co, Domain_Ab_CO, Domain_ab, Domain_a_co, Domain_ab_c1 }

Requests ==
    { Request(k, <<>>) : k \in { "invalid_json", "null", "no_domain", "number" } }
    \cup { Request("string", d) : d \in ScanDomains }

Fetched == { "network_error", "timeout", "http_error", "ok" }

\* candidate arrays handed to resolveSubdomains directly
HostPool == << << "a" >>, << "b" >>, << "a" >>, << "c" >>, << "b" >>, << "d" >> >>
CandidateArrays == { SubSeq(HostPool, 1, n) : n \in 0 .. MaxCandidates }

\* strings handed to the domain test
DomainAlphabet == { "a", "Z", "7", "-", ".", "_" }
DomainStrings == UNION { [ 1 .. n -> DomainAlphabet ] : n \in 0 .. MaxDomainLen }

----------------------------------------------------------------------------
(* Specifications *)

\* POST /api/scan, one invocation
Init ==
    /\ request \in Requests
    /\ ppc = "start"
    /\ response = NoResponse
    /\ ctFetches = 0
    /\ ctOutcome = NoOutcome
    /\ ctSubdomains = <<>>
    /\ allSubdomains = <<>>
    /\ Idle
    /\ probe = NoProbe
    /\ probeOut = Pending
    /\ commonSubdomains = PrefixTable
    /\ other = NoOther


Next ==
    \/ PostRequest
    \/ \E fetched \in Fetched : FetchSettled(fetched)
    \/ BodySettled(CtBodies(request.domain))
    \/ \E n \in DOMAIN task, answer \in Answers4 : Resolve4Settled(n, answer)
    \/ \E n \in DOMAIN task, answer \in Answers6 : Resolve6Settled(n, answer)
    \/ \E n \in DOMAIN task : LookupTimeout(n)
    \/ ChunkJoin
    \/ PostRespond

Spec == Init /\ [][Next]_vars

\* resolveSubdomains called on its own
ResolveCall ==
    /\ rpc = "idle"
    /\ ppc = "none"
    /\ callResolveSubdomains(subdomains, concurrency, onProgress.given)
    /\ UNCHANGED << postVars, probeVars, moduleVars, otherVars >>

InitResolve ==
    /\ NoPost
    /\ subdomains \in CandidateArrays
    /\ concurrency \in 1 .. MaxConcurrency
    /\ i = 0
    /\ results = <<>>
    /\ completed = 0
    /\ rpc = "idle"
    /\ task = <<>>
    /\ mapper = <<>>
    /\ dnsIssued = 0
    /\ onProgress = NoCallback
    /\ probe = NoProbe
    /\ probeOut = Pending
    /\ commonSubdomains = PrefixTable
    /\ other = NoOther

NextResolve ==
    \/ ResolveCall
    \/ \E n \in DOMAIN task, answer \in Answers4 : Resolve4Settled(n, answer)
    \/ \E n \in DOMAIN task, answer \in Answers6 : Resolve6Settled(n, answer)
    \/ \E n \in DOMAIN task : LookupTimeout(n)
    \/ ChunkJoin

SpecResolve == InitResolve /\ [][NextResolve]_vars

\* resolveSubdomains called on its own with the outcome of each candidate
\* fixed beforehand: the answers of dns.resolve4 and dns.resolve6, or the
\* timer firing before the lookups are over; the order of the events is free
PlannedOutcomes ==
    { [ timeout |-> FALSE, a |-> x, aaaa |-> y ] :
        x \in { DnsRejected, DnsFulfilled(<< Addr_104_16_1_1 >>) },
        y \in { DnsRejected, DnsFulfilled(<< Addr_2606_4700__1 >>) } }
    \cup { [ timeout |-> TRUE, a |-> DnsFulfilled(<< Addr_104_16_1_1 >>), aaaa |-> DnsRejected ] }

plan == probe.arg

InitPlanned ==
    /\ NoPost
    /\ subdomains \in CandidateArrays
    /\ concurrency \in 1 .. MaxConcurrency
    /\ i = 0
    /\ results = <<>>
    /\ completed = 0
    /\ rpc = "idle"
    /\ task = <<>>
    /\ mapper = <<>>
    /\ dnsIssued = 0
    /\ onProgress = NoCallback
    /\ probe \in { [ fn |-> "dns", arg |-> p ] : p \in [ DOMAIN subdomains -> PlannedOutcomes ] }
    /\ probeOut = Pending
    /\ commonSubdomains = PrefixTable
    /\ other = NoOther

NextPlanned ==
    \/ ResolveCall
    \/ \E n \in DOMAIN task : Resolve4Settled(n, plan[n].a)
    \/ \E n \in DOMAIN task :
          /\ plan[n].timeout => mapper[n].st = "settled"
          /\ Resolve6Settled(n, plan[n].aaaa)
    \/ \E n \in DOMAIN task : plan[n].timeout /\ LookupTimeout(n)
    \/ ChunkJoin

SpecPlanned == InitPlanned /\ [][NextPlanned]_vars

\* resolveSubdomains called on its own, with an event loop that runs the
\* queued continuations and fires the 3000 ms timers; DNS answers may never
\* come
NextResolveTimers ==
    \/ ResolveCall
    \/ \E n \in DOMAIN task, answer \in { DnsRejected, DnsFulfilled(<< Addr_104_16_1_1 >>) } :
          Resolve4Settled(n, answer)
    \/ \E n \in DOMAIN task : Resolve6Settled(n, DnsRejected)
    \/ \E n \in DOMAIN task : LookupTimeout(n)
    \/ ChunkJoin

SpecResolveTimers ==
    /\ InitResolve
    /\ [][NextResolveTimers]_vars
    /\ WF_vars(ResolveCall)
    /\ WF_vars(ChunkJoin)
    /\ WF_vars(\E n \in DOMAIN task : LookupTimeout(n))

\* resolveSubdomains called on its own with a progress callback
InitProgress ==
    /\ NoPost
    /\ subdomains \in CandidateArrays
    /\ concurrency \in 1 .. MaxConcurrency
    /\ i = 0
    /\ results = <<>>
    /\ completed = 0
    /\ rpc = "idle"
    /\ task = <<>>
    /\ mapper = <<>>
    /\ dnsIssued = 0
    /\ onProgress = [ given |-> TRUE, calls |-> <<>> ]
    /\ probe = NoProbe
    /\ probeOut = Pending
    /\ commonSubdomains = PrefixTable
    /\ other = NoOther

SpecProgress == InitProgress /\ [][NextResolveTimers]_vars

\* resolveSubdomains called with a candidate array that is not empty and a
\* concurrency of zero or less; the event loop keeps running what is queued
InitNonPositive ==
    /\ NoPost
    /\ subdomains \in CandidateArrays \ { <<>> }
    /\ concurrency \in (0 - MaxConcurrency) .. 0
    /\ i = 0
    /\ results = <<>>
    /\ completed = 0
    /\ rpc = "idle"
    /\ task = <<>>
    /\ mapper = <<>>
    /\ dnsIssued = 0
    /\ onProgress = NoCallback
    /\ probe = NoProbe
    /\ probeOut = Pending
    /\ commonSubdomains = PrefixTable
    /\ other = NoOther

SpecNonPositive == InitNonPositive /\ [][NextResolve]_vars /\ WF_vars(NextResolve)

\* the domain test of POST applied to a string
ApplyDomainPattern ==
    /\ probe.fn = "domainPattern"
    /\ ~probeOut.done
    /\ probeOut' = Done(test(domainPattern, probe.arg))
    /\ UNCHANGED << probe, postVars, resolverVars, moduleVars, otherVars >>

InitValidate ==
    /\ NoPost
    /\ Idle
    /\ probe \in { [ fn |-> "domainPattern", arg |-> s ] : s \in DomainStrings }
    /\ probeOut = Pending
    /\ commonSubdomains = PrefixTable
    /\ other = NoOther

NextValidate == ApplyDomainPattern

SpecValidate == InitValidate /\ [][NextValidate]_vars

\* POST /api/scan for example.com with crt.sh and the DNS resolver replaced
\* by fixed answers, and the prefix table cut after its entry "admin"
Domain_example_com == << "e", "x", "a", "m", "p", "l", "e", ".", "c", "o", "m" >>
Host_admin_example_com == << "a", "d", "m", "i", "n", "." >> \o Domain_example_com

\* [{"name_value": "admin.example.com\n*.example.com"}]
ExampleCtBody ==
    JArr(<< JEntry(JStr(Host_admin_example_com \o << "\n" >>
                        \o << "*", "." >> \o Domain_example_com)) >>)

\* answers of dns.resolve4: admin.example.com has the address 104.16.1.1,
\* every other name does not exist
exampleResolve4(subdomain) ==
    IF subdomain = Host_admin_example_com THEN DnsFulfilled(<< Addr_104_16_1_1 >>)
    ELSE DnsRejected

\* answers of dns.resolve6: any for admin.example.com, every other name
\* does not exist
exampleResolve6(subdomain) ==
    IF subdomain = Host_admin_example_com THEN Answers6 ELSE { DnsRejected }

InitExample ==
    /\ request = Request("string", Domain_example_com)
    /\ ppc = "start"
    /\ response = NoResponse
    /\ ctFetches = 0
    /\ ctOutcome = NoOutcome
    /\ ctSubdomains = <<>>
    /\ allSubdomains = <<>>
    /\ Idle
    /\ probe = NoProbe
    /\ probeOut = Pending
    /\ commonSubdomains = SubSeq(COMMON_SUBDOMAINS, 1, ExampleWordlistLen)
    /\ other = NoOther

NextExample ==
    \/ PostRequest
    \/ FetchSettled("ok")
    \/ BodySettled({ ExampleCtBody })
    \/ \E n \in DOMAIN task : Resolve4Settled(n, exampleResolve4(subdomains[n]))
    \/ \E n \in DOMAIN task : \E answer \in exampleResolve6(subdomains[n]) :
          Resolve6Settled(n, answer)
    \/ ChunkJoin
    \/ PostRespond

SpecExample == InitExample /\ [][NextExample]_vars

\* isCloudflare applied to an address on its own
RECURSIVE decimalDigits(_)
decimalDigits(n) ==
    IF n < 10 THEN << Digits[n + 1] >>
    ELSE decimalDigits(n \div 10) \o << Digits[(n % 10) + 1] >>

dottedQuad(a, b, c, d) ==
    decimalDigits(a) \o << "." >> \o decimalDigits(b) \o << "." >>
        \o decimalDigits(c) \o << "." >> \o decimalDigits(d)

networkOctets(cidr) ==
    [ n \in 1 .. 4 |-> decimal(split(split(cidr, "/")[1], ".")[n], 0) ]
prefixLength(cidr) == decimal(split(cidr, "/")[2], 0)

\* dotted quads at and around the two ends of a listed block, in each octet
QuadsNear(cidr) ==
    LET y == networkOctets(cidr)
        p == prefixLength(cidr)
        span2 == IF p <= 16 THEN pow2(16 - p) ELSE 1
        span3 == IF p <= 16 THEN 256 ELSE pow2(24 - p)
        first == { y[1] - 1, y[1], y[1] + 1 } \cap (0 .. 255)
        second == { y[2] - 1, y[2], y[2] + span2 - 1, y[2] + span2 } \cap (0 .. 255)
        third == { y[3] - 1, y[3], y[3] + span3 - 1, y[3] + span3, 0, 255 } \cap (0 .. 255)
    IN  { dottedQuad(a, b, c, d) : a \in first, b \in second, c \in third, d \in { 0, 255 } }

Ipv4Addresses ==
    UNION { QuadsNear(CLOUDFLARE_IPV4_RANGES[n]) : n \in DOMAIN CLOUDFLARE_IPV4_RANGES }
    \cup { dottedQuad(a, b, 0, 1) : a \in { 0, 127, 128, 255 }, b \in { 0, 255 } }
    \cup Addrs4

\* IPv6 addresses: in each listed block, next to it, and elsewhere
Ipv6Heads ==
    { << "2", "4", "0", "0", ":", "c", "b", "0", "0" >>,
      << "2", "4", "0", "0", ":", "c", "b", "0", "1" >>,
      << "2", "6", "0", "6", ":", "4", "7", "0", "0" >>,
      << "2", "6", "0", "6", ":", "4", "7", "0", "1" >>,
      << "2", "6", "0", "7", ":", "4", "7", "0", "0" >>,
      << "2", "8", "0", "3", ":", "f", "8", "0", "0" >>,
      << "2", "4", "0", "5", ":", "b", "5", "0", "0" >>,
      << "2", "4", "0", "5", ":", "8", "1", "0", "0" >>,
      << "2", "4", "0", "5", ":", "8", "1", "0", "f" >>,
      << "2", "a", "0", "6", ":", "9", "8", "b", "f" >>,
      << "2", "a", "0", "6", ":", "9", "8", "c", "0" >>,
      << "2", "a", "0", "6", ":", "9", "8", "c", "1" >>,
      << "2", "a", "0", "6", ":", "9", "8", "c", "7" >>,
      << "2", "a", "0", "6", ":", "9", "8", "c", "8" >>,
      << "2", "c", "0", "f", ":", "f", "2", "4", "8" >>,
      << "2", "0", "0", "1", ":", "d", "b", "8" >>,
      << "f", "e", "8", "0", ":", "0" >> }
Ipv6Tails ==
    { << ":", ":" >>, << ":", ":", "1" >>, << ":", "0", ":", "0", ":", "0", ":", "0", ":", "0", ":", "1" >> }
Ipv6Addresses == { h \o t : h \in Ipv6Heads, t \in Ipv6Tails }

\* strings that are not addresses
NotAddresses ==
    { << "a", "b", "c" >>,
      << "1", ".", "2", ".", "3" >>,
      << "1", ".", "2", ".", "3", ".", "4", ".", "5" >>,
      << "3", "0", "0", ".", "1", ".", "1", ".", "1" >>,
      << "1", ".", ".", "2", ".", "3" >>,
      << "1", "0", "4", ".", "1", "6", ".", "1", ".", "x" >>,
      << "1", "0", "4", ".", "1", "6", ".", "1", ".", "1", "/", "1", "3" >>,
      << "1", "0", "4" >>,
      << "." >>,
      << ":" >>,
      << "1", ":", "2" >>,
      << "a", ".", "b", ".", "c", ".", "d" >>,
      << "1", "0", "4", ".", "1", "6" >>,
      << "1", "0", "4", "_", "1", "6", "_", "1", "_", "1" >> }

ClassifyInputs ==
    { NullStr, Str(<<>>) }
    \cup { Str(a) : a \in Ipv4Addresses \cup Ipv6Addresses \cup NotAddresses }

ApplyIsCloudflare ==
    /\ probe.fn = "isCloudflare"
    /\ ~probeOut.done
    /\ probeOut' = Done(callIsCloudflare(probe.arg))
    /\ UNCHANGED << probe, postVars, resolverVars, moduleVars, otherVars >>

InitClassify ==
    /\ NoPost
    /\ Idle
    /\ probe \in { [ fn |-> "isCloudflare", arg |-> a ] : a \in ClassifyInputs }
    /\ probeOut = Pending
    /\ commonSubdomains = PrefixTable
    /\ other = NoOther

NextClassify == ApplyIsCloudflare

SpecClassify == InitClassify /\ [][NextClassify]_vars

\* fetchSubdomainsFromCrtSh with a crt.sh answer of status 200 whose body is
\* an array of records with a string name_value
NamePool(d) ==
    { name(<< "m" >>, d),
      name(<< "*" >>, d),
      << " " >> \o name(<< "M" >>, d) \o << " " >>,
      name(<< "m", "_" >>, d),
      << "m", ".", "z", "z" >> }

RECURSIVE joinLines(_)
joinLines(names) ==
    IF Len(names) = 1 THEN names[1]
    ELSE names[1] \o << "\n" >> \o joinLines(Tail(names))

\* the name_value members: up to MaxNames names of the pool on a line
\* each, and the name of another domain that has d as its last characters
NameValues(d) ==
    { joinLines(names) : names \in UNION { [ 1 .. n -> NamePool(d) ] : n \in 1 .. MaxNames } }
    \cup { << "x" >> \o d }

WellFormedBodies(d) ==
    { JArr([ n \in DOMAIN nvs |-> JEntry(JStr(nvs[n])) ]) :
        nvs \in UNION { [ 1 .. n -> NameValues(d) ] : n \in 0 .. MaxEntries } }

ApplyFetchSubdomains ==
    /\ probe.fn = "fetchSubdomainsFromCrtSh"
    /\ ~probeOut.done
    /\ probeOut' = Done(fetchSubdomainsFromCrtSh("ok", probe.arg.body, probe.arg.domain))
    /\ UNCHANGED << probe, postVars, resolverVars, moduleVars, otherVars >>

InitDiscover ==
    /\ NoPost
    /\ Idle
    /\ probe \in { [ fn |-> "fetchSubdomainsFromCrtSh",
                     arg |-> [ body |-> b, domain |-> d ] ] :
                       d \in { Domain_ab_co, Domain_Ab_CO }, b \in WellFormedBodies(Domain_ab_co) }
    /\ probeOut = Pending
    /\ commonSubdomains = PrefixTable
    /\ other = NoOther

NextDiscover == ApplyFetchSubdomains

SpecDiscover == InitDiscover /\ [][NextDiscover]_vars

\* generateWordlistSubdomains applied to a string, twice, with the first
\* entries of the prefix table
WordlistDomains ==
    ScanDomains \cup { Domain_example_com }
    \cup UNION { [ 1 .. n -> DomainAlphabet ] : n \in 0 .. 2 }

NoLists == << >>

\* one call: the list returned is appended to the outputs, and the array
\* COMMON_SUBDOMAINS is what map left of it
ApplyGenerateWordlist ==
    /\ probe.fn = "generateWordlistSubdomains"
    /\ ~probeOut.done
    /\ LET lists == Append(probeOut.value, generateWordlistSubdomains(probe.arg))
       IN  probeOut' = [ done |-> Len(lists) = 2, value |-> lists ]
    /\ commonSubdomains' = tableAfterWordlist(probe.arg)
    /\ UNCHANGED << probe, postVars, resolverVars, otherVars >>

InitWordlist ==
    /\ NoPost
    /\ Idle
    /\ probe \in { [ fn |-> "generateWordlistSubdomains", arg |-> d ] : d \in WordlistDomains }
    /\ probeOut = [ done |-> FALSE, value |-> NoLists ]
    /\ commonSubdomains \in { SubSeq(COMMON_SUBDOMAINS, 1, n) : n \in 0 .. ExampleWordlistLen }
    /\ other = NoOther

NextWordlist == ApplyGenerateWordlist

SpecWordlist == InitWordlist /\ [][NextWordlist]_vars

\* Two invocations of POST at the same time.  The first is the one of the
\* variables above.  The second runs the same code on its own local
\* variables (route.ts lines 30-86, dns-resolver.ts lines 61-63) and is kept
\* in the record other; the one object both invocations reach is the
\* module's array COMMON_SUBDOMAINS, read at route.ts line 57.
Domain_cd_co == << "c", "d", ".", "c", "o" >>
OtherDomains == { Domain_cd_co, Domain_ab_co }
OtherIps == { NullStr, Str(Addr_104_16_1_1) }

\* route.ts lines 29-65 of the second invocation: the discovery has
\* ended; generate the wordlist from the module's array and combine
OtherStart(fetched, body) ==
    /\ other.pc = "start"
    /\ LET outcome == fetchSubdomainsFromCrtSh(fetched, body, other.domain)
       IN  IF ~test(domainPattern, other.domain) THEN
               /\ other' = [ other EXCEPT
                               !.pc = "done",
                               !.response = ErrorResponse(400, "Invalid domain format") ]
               /\ UNCHANGED moduleVars
           ELSE IF outcome.threw THEN
               /\ other' = [ other EXCEPT !.pc = "done", !.response = internalError ]
               /\ UNCHANGED moduleVars
           ELSE
               /\ other' = [ other EXCEPT
                               !.pc = "resolve",
                               !.ct = outcome.value,
                               !.all = combine(outcome.value,
                                               generateWordlistSubdomains(other.domain)) ]
               /\ commonSubdomains' = tableAfterWordlist(other.domain)
    /\ UNCHANGED << postVars, resolverVars, probeVars >>

\* the records of the second invocation's resolver for the addresses its
\* lookups ended with
otherRecords(all, ips) == [ n \in DOMAIN all |-> DnsResult(all[n], ips[n], NullStr) ]

\* route.ts lines 65-98 of the second invocation: its resolver has
\* returned, with ips as the addresses found; build the report
OtherRespond(ips) ==
    /\ other.pc = "resolve"
    /\ DOMAIN ips = DOMAIN other.all
    /\ other' = [ other EXCEPT
                    !.pc = "done",
                    !.ips = ips,
                    !.response = buildResponse(other.domain, otherRecords(other.all, ips)) ]
    /\ UNCHANGED << postVars, resolverVars, probeVars, moduleVars >>

TwoBodies(d) == { JArr(<<>>), JArr(<< JEntry(JStr(name(<< "m" >>, toLowerCase(d)))) >>) }

InitTwo ==
    /\ request \in { Request("string", Domain_ab_co), Request("string", Domain_Ab_CO) }
    /\ ppc = "start"
    /\ response = NoResponse
    /\ ctFetches = 0
    /\ ctOutcome = NoOutcome
    /\ ctSubdomains = <<>>
    /\ allSubdomains = <<>>
    /\ Idle
    /\ probe = NoProbe
    /\ probeOut = Pending
    /\ commonSubdomains = PrefixTable
    /\ other \in { [ NoOther EXCEPT !.pc = "start", !.domain = d ] : d \in OtherDomains }

NextTwo ==
    \/ PostRequest
    \/ \E fetched \in { "timeout", "ok" } : FetchSettled(fetched)
    \/ BodySettled(TwoBodies(request.domain))
    \/ \E n \in DOMAIN task : Resolve4Settled(n, DnsFulfilled(<< Addr_104_16_1_1 >>))
    \/ \E n \in DOMAIN task : Resolve6Settled(n, DnsRejected)
    \/ \E n \in DOMAIN task : LookupTimeout(n)
    \/ ChunkJoin
    \/ PostRespond
    \/ \E fetched \in { "timeout", "ok" }, body \in TwoBodies(other.domain) :
          OtherStart(fetched, body)
    \/ \E ips \in [ DOMAIN other.all -> OtherIps ] : OtherRespond(ips)

SpecTwo == InitTwo /\ [][NextTwo]_vars

----------------------------------------------------------------------------
(* Properties *)

Entries == response.subdomains
Reported == response.status = 200
wordlistOf(d) == [ n \in DOMAIN PrefixTable |-> PrefixTable[n] \o << "." >> \o d ]
occurrences(seq, x) == Cardinality({ n \in DOMAIN seq : seq[n].subdomain = x })

\* C1: when resolveSubdomains(S, C) with C >= 1 returns, the returned array
\* has the length of S and its n-th record carries the n-th candidate,
\* whatever the lookups answered and in whatever order they ended.
C1_OneRecordPerCandidateInOrder ==
    rpc = "returned" =>
        /\ Len(results) = Len(subdomains)
        /\ \A n \in DOMAIN subdomains : results[n].subdomain = subdomains[n]

\* a run over several chunks, the last one partial, in which one candidate
\* timed out and another resolved
C1_Witness ==
    /\ rpc = "returned"
    /\ Len(subdomains) >= 3
    /\ concurrency = 2
    /\ \E n \in DOMAIN task : task[n].phase # "done"
    /\ \E n \in DOMAIN results : truthy(results[n].ip)

\* C2: at every moment of a run of resolveSubdomains with C >= 1, the DNS
\* queries issued and not yet answered number at most C.
C2_InFlightAtMostConcurrency ==
    rpc # "idle" => Cardinality(inFlight) <= concurrency

\* C3: the subdomains list of a report holds every hostname of the
\* deduplicated union of the CT-derived and the wordlist-derived candidates
\* exactly once, and nothing else.
C3_OneEntryPerCandidate ==
    Reported =>
        LET union == Range(ctSubdomains) \cup Range(wordlistOf(request.domain))
        IN  /\ \A x \in union : occurrences(Entries, x) = 1
            /\ \A n \in DOMAIN Entries : Entries[n].subdomain \in union

\* a report for which the CT source and the wordlist named the same host
C3_Witness ==
    /\ Reported
    /\ Range(ctSubdomains) \cap Range(wordlistOf(request.domain)) # {}
    /\ Len(Entries) >= 1

\* C4: the candidate array handed to the resolver never holds two hostnames
\* that are equal up to case.
C4_NoCaseInsensitiveDuplicates ==
    \A m, n \in DOMAIN allSubdomains :
        m # n => toLowerCase(allSubdomains[m]) # toLowerCase(allSubdomains[n])

\* the octets of a dotted quad
octets(a) == [ n \in 1 .. 4 |-> decimal(split(a, ".")[n], 0) ]

\* address a lies in the block cidr: its top p bits are the block's, told
\* from the upper and the lower 16 bits without any 32-bit arithmetic
inBlock(a, cidr) ==
    LET p == decimal(split(cidr, "/")[2], 0)
        x == octets(a)
        y == octets(split(cidr, "/")[1])
        hiX == 256 * x[1] + x[2]
        loX == 256 * x[3] + x[4]
        hiY == 256 * y[1] + y[2]
        loY == 256 * y[3] + y[4]
    IN  IF p <= 16 THEN hiX \div pow2(16 - p) = hiY \div pow2(16 - p)
        ELSE hiX = hiY /\ loX \div pow2(32 - p) = loY \div pow2(32 - p)

inListedBlock(a) ==
    \E n \in DOMAIN CLOUDFLARE_IPV4_RANGES : inBlock(a, CLOUDFLARE_IPV4_RANGES[n])

\* C5: an entry of a report flagged cloudflare has an ip, and that ip lies
\* in a listed block; an entry with ip 104.16.1.1 is flagged and one with ip
\* 8.8.8.8 is not.
C5_FlaggedEntriesAreInListedBlocks ==
    Reported =>
        \A n \in DOMAIN Entries :
            /\ Entries[n].cloudflare =>
                   ~Entries[n].ip.isNull /\ inListedBlock(Entries[n].ip.s)
            /\ Entries[n].ip = Str(Addr_104_16_1_1) => Entries[n].cloudflare
            /\ Entries[n].ip = Str(Addr_8_8_8_8) => ~Entries[n].cloudflare

\* a report with a flagged entry, an entry at 8.8.8.8 and an entry without ip
C5_Witness ==
    /\ Reported
    /\ \E n \in DOMAIN Entries : Entries[n].cloudflare
    /\ \E n \in DOMAIN Entries : Entries[n].ip = Str(Addr_8_8_8_8)
    /\ \E n \in DOMAIN Entries : Entries[n].ip.isNull

\* C6: in the subdomains list of a report no entry without ip comes before
\* an entry with an ip.
C6_ResolvedEntriesFirst ==
    Reported =>
        \A m, n \in DOMAIN Entries :
            m < n => ~(Entries[m].ip.isNull /\ ~Entries[n].ip.isNull)

\* a report in which the entry that sorts first by name has no ip while a
\* later name has one
C6_Witness ==
    /\ Reported
    /\ Len(Entries) >= 3
    /\ \E m, n \in DOMAIN Entries :
        /\ Entries[m].ip.isNull
        /\ ~Entries[n].ip.isNull
        /\ codeUnitCompare(Entries[m].subdomain, Entries[n].subdomain) < 0

\* C7: fetchSubdomainsFromCrtSh never raises, and returns the empty list on
\* a transport failure, a timeout, a non-OK status, a body that is not JSON
\* and a JSON body of an unexpected shape.
C7_DiscovererNeverRaises ==
    ctOutcome.settled =>
        /\ ~ctOutcome.threw
        /\ ctOutcome.kind # "ok" => ctOutcome.returned = <<>>

\* the discoverer has returned from a body whose shape made the loop throw
C7_Witness ==
    /\ ctOutcome.settled
    /\ ctOutcome.kind = "bad_shape"
    /\ ppc = "resolve"

\* C8: when the CT source fails, the request is still answered with a
\* report, and each wordlist candidate prefix.domain has one entry in it.
C8_WordlistSurvivesCtFailure ==
    (ppc = "done" /\ ctOutcome.settled /\ ctOutcome.kind # "ok") =>
        /\ Reported
        /\ \A n \in DOMAIN PrefixTable :
               occurrences(Entries, wordlistOf(request.domain)[n]) = 1

\* a report sent after the crt.sh request timed out
C8_Witness ==
    /\ ppc = "done"
    /\ ctOutcome.kind = "timeout"
    /\ Reported
    /\ Len(Entries) = Len(PrefixTable)

\* the labels of a string, and the label grammar: characters of
\* [a-zA-Z0-9-], not empty, no hyphen at either end
labelsOf(s) == split(s, ".")
isLabel(l) ==
    /\ l # <<>>
    /\ \A n \in DOMAIN l : l[n] \in UpperLowerAlnum \cup { "-" }
    /\ l[1] # "-"
    /\ l[Len(l)] # "-"
lastLabel(s) == labelsOf(s)[Len(labelsOf(s))]

\* the grammar as C10 states it
claimedGrammar(s) ==
    /\ \A n \in DOMAIN labelsOf(s) : isLabel(labelsOf(s)[n])
    /\ Len(lastLabel(s)) >= 2

\* the grammar with at least two labels and a final label of letters only
amendedGrammar(s) ==
    /\ Len(labelsOf(s)) >= 2
    /\ \A n \in DOMAIN labelsOf(s) : isLabel(labelsOf(s)[n])
    /\ Len(lastLabel(s)) >= 2
    /\ \A n \in DOMAIN lastLabel(s) : lastLabel(s)[n] \in LowerSet \cup UpperSet

\* the request carries a domain the scan accepts
validRequest == request.kind = "string" /\ amendedGrammar(request.domain)

\* C9: for a request whose domain fails validation no CT fetch and no DNS
\* query is issued at any point of the invocation.
C9_NoNetworkBeforeValidation ==
    ~validRequest => ctFetches = 0 /\ dnsIssued = 0

\* a malformed domain has been answered with the format error
C9_Witness ==
    /\ ppc = "done"
    /\ response.status = 400
    /\ request.domain = Domain_ab_c1

\* C10 as stated: a domain is accepted exactly when it is one or more
\* dot-separated labels of [a-zA-Z0-9-] without a hyphen at either end, the
\* last of length at least 2.
C10_AcceptsClaimedGrammar ==
    probeOut.done => (probeOut.value <=> claimedGrammar(probe.arg))

\* C10 amended: a domain is accepted exactly when it is two or more such
\* labels and the last one consists of at least 2 letters.
C10_AcceptsAmendedGrammar ==
    probeOut.done => (probeOut.value <=> amendedGrammar(probe.arg))

\* an accepted domain with a hyphen inside a label
C10_Witness ==
    /\ probeOut.done
    /\ probeOut.value
    /\ "-" \in Range(probe.arg)

\* C11: every request whose domain is absent, is not a string or is
\* malformed is answered with a 4xx status, never with a 5xx status and
\* never with a report.
C11_InvalidRequestAnswered4xx ==
    (ppc = "done" /\ ~validRequest) =>
        (response.status >= 400 /\ response.status <= 499)

\* number of entries flagged as Cloudflare, counted one entry at a time
RECURSIVE flaggedIn(_)
flaggedIn(entries) ==
    IF entries = <<>> THEN 0
    ELSE (IF Head(entries).cloudflare THEN 1 ELSE 0) + flaggedIn(Tail(entries))

\* number of entries whose ip is null, counted one entry at a time
RECURSIVE nullIpIn(_)
nullIpIn(entries) ==
    IF entries = <<>> THEN 0
    ELSE (IF Head(entries).ip.isNull THEN 1 ELSE 0) + nullIpIn(Tail(entries))

\* C12: in every report stats.total is the number of entries, stats.cloudflare
\* the number of entries flagged as Cloudflare and stats.no_ip the number of
\* entries with a null ip; a response that is not a report carries no entries.
C12_StatsMatchEntries ==
    /\ Reported =>
        /\ response.stats.total = Len(Entries)
        /\ response.stats.cloudflare = flaggedIn(Entries)
        /\ response.stats.no_ip = nullIpIn(Entries)
    /\ ~Reported => Entries = <<>>

\* a report with a flagged entry, an entry without address and an entry
\* with an address outside the listed blocks
C12_Witness ==
    /\ Reported
    /\ \E n \in DOMAIN Entries : Entries[n].cloudflare
    /\ \E n \in DOMAIN Entries : Entries[n].ip.isNull
    /\ \E n \in DOMAIN Entries : ~Entries[n].ip.isNull /\ ~Entries[n].cloudflare

\* C13 as stated: for example.com, with the CT record
\* "admin.example.com\n*.example.com", admin.example.com resolving to
\* 104.16.1.1 and no other name resolving, the report has total =
\* wordlistCount + 1, cloudflare = 1, no_ip = wordlistCount and
\* admin.example.com / 104.16.1.1 / true as its first entry.
C13_ExampleReportAsStated ==
    Reported =>
        /\ response.stats = Stats(Len(commonSubdomains) + 1, 1, Len(commonSubdomains))
        /\ Entries[1] = ScanResult(Host_admin_example_com, Str(Addr_104_16_1_1), TRUE)

\* C13 amended: admin is an entry of the prefix table, so the CT name and
\* the wordlist name are one candidate: total = wordlistCount, cloudflare =
\* 1, no_ip = wordlistCount - 1, and the first entry is as stated.
C13_ExampleReportDeduplicated ==
    Reported =>
        /\ response.stats = Stats(Len(commonSubdomains), 1, Len(commonSubdomains) - 1)
        /\ Entries[1] = ScanResult(Host_admin_example_com, Str(Addr_104_16_1_1), TRUE)

\* the report for example.com has been sent, from the CT record of the
\* example and a prefix table that holds admin
C13_Witness ==
    /\ Reported
    /\ request.domain = Domain_example_com
    /\ ctSubdomains = << Host_admin_example_com >>
    /\ \E n \in DOMAIN commonSubdomains : commonSubdomains[n] = << "a", "d", "m", "i", "n" >>
    /\ Len(Entries) = Len(commonSubdomains)

\* C14: for every well-formed dotted quad, first octets of 128 and more
\* included, isCloudflare is true exactly when the address has the top p
\* bits of some listed IPv4 block network/p.
C14_Ipv4MembershipIsPrefixMatch ==
    (probeOut.done /\ ~probe.arg.isNull /\ probe.arg.s \in Ipv4Addresses) =>
        /\ ~probeOut.value.threw
        /\ probeOut.value.value <=> inListedBlock(probe.arg.s)

\* the last address of 198.41.128.0/17 has been classified as a member
C14_Witness ==
    /\ probeOut.done
    /\ probe.arg = Str(dottedQuad(198, 41, 255, 255))
    /\ probeOut.value.value

\* value of a group of hexadecimal digits
HexDigits == Digits \o << "a", "b", "c", "d", "e", "f" >>
RECURSIVE hexValue(_, _)
hexValue(g, acc) ==
    IF g = <<>> THEN acc ELSE hexValue(Tail(g), 16 * acc + (IndexOf(HexDigits, Head(g)) - 1))

\* the first two groups of an IPv6 address or network: its first 32 bits
firstGroups(a) == [ n \in 1 .. 2 |-> hexValue(split(a, ":")[n], 0) ]

\* address a has the first p bits of the block cidr (p <= 32 in every listed
\* block)
inBlock6(a, cidr) ==
    LET p == decimal(split(cidr, "/")[2], 0)
        x == firstGroups(a)
        y == firstGroups(split(cidr, "/")[1])
    IN  IF p <= 16 THEN x[1] \div pow2(16 - p) = y[1] \div pow2(16 - p)
        ELSE x[1] = y[1] /\ x[2] \div pow2(32 - p) = y[2] \div pow2(32 - p)

inListedBlock6(a) ==
    \E n \in DOMAIN CLOUDFLARE_IPV6_RANGES : inBlock6(a, CLOUDFLARE_IPV6_RANGES[n])

\* C15: for every IPv6 address, isCloudflare is true exactly when the
\* address has the first p bits of some listed IPv6 block network/p.
C15_Ipv6MembershipIsPrefixMatch ==
    (probeOut.done /\ ~probe.arg.isNull /\ probe.arg.s \in Ipv6Addresses) =>
        (probeOut.value.value <=> inListedBlock6(probe.arg.s))

\* C16: isCloudflare(null) is false, and for every input, the empty string
\* and strings that are not addresses included, isCloudflare returns a
\* boolean and does not raise.
C16_ClassifierTotalAndNullIsFalse ==
    probeOut.done =>
        /\ ~probeOut.value.threw
        /\ probeOut.value.value \in BOOLEAN
        /\ probe.arg.isNull => probeOut.value.value = FALSE

\* isCloudflare(null) has returned false
C16_Witness ==
    /\ probeOut.done
    /\ probe.arg = NullStr
    /\ probeOut.value = Returned(FALSE)

\* C17: for every concurrency limit C >= 1 and whatever the lookups do,
\* resolveSubdomains never rejects, no callback of the batch rejects, and
\* the record returned for a candidate whose lookup failed or timed out
\* carries the candidate with null address fields.
C17_ResolverNeverRejects ==
    /\ rpc # "rejected"
    /\ \A n \in DOMAIN mapper : mapper[n].st # "rejected"
    /\ rpc = "returned" =>
        /\ Len(results) = Total
        /\ \A n \in DOMAIN results :
              \/ results[n] = DnsResult(subdomains[n], NullStr, NullStr)
              \/ task[n].phase = "done" /\ results[n] = task[n].result

\* a batch of two chunks has returned although a candidate of the first
\* chunk timed out and a lookup of the second chunk was rejected
C17_Witness ==
    /\ rpc = "returned"
    /\ concurrency >= 1
    /\ concurrency < Total
    /\ task[1].phase # "done"
    /\ results[1] = DnsResult(subdomains[1], NullStr, NullStr)
    /\ task[Total].phase = "done"
    /\ results[Total].ip.isNull

\* C18: called with a candidate array that is not empty and a concurrency
\* limit C <= 0, resolveSubdomains ends in an error and returns no array.
C18_NonPositiveLimitEndsInError == <>(rpc = "rejected")

\* every name of every record of a well-formed body: the lines of the
\* name_value members
linesOf(body) ==
    UNION { Range(split(body.items[n].nv[1].s, "\n")) : n \in DOMAIN body.items }

\* a hostname: dot-separated labels of letters, digits and inner hyphens
isHostname(s) == \A n \in DOMAIN labelsOf(s) : isLabel(labelsOf(s)[n])

\* a name is kept: not a wildcard entry, a hostname, and ending with the
\* queried domain
kept(x, domain) ==
    /\ ~startsWith(x, << "*", "." >>)
    /\ isHostname(x)
    /\ endsWith(x, toLowerCase(domain))

\* strictly ascending by code units: sorted and without duplicates
ascending(list) ==
    \A n \in 1 .. Len(list) - 1 : codeUnitCompare(list[n], list[n + 1]) < 0

C20_WordlistIsPrefixDotDomain ==
    /\ \A c \in DOMAIN probeOut.value :
          /\ Len(probeOut.value[c]) = Len(commonSubdomains)
          /\ \A n \in DOMAIN commonSubdomains :
                probeOut.value[c][n] = COMMON_SUBDOMAINS[n] \o << "." >> \o probe.arg
    /\ probeOut.done => probeOut.value[1] = probeOut.value[2]
    /\ commonSubdomains = SubSeq(COMMON_SUBDOMAINS, 1, Len(commonSubdomains))
    /\ other = NoOther

\* two calls for example.com have returned, with the table up to admin
C20_Witness ==
    /\ probeOut.done
    /\ probe.arg = Domain_example_com
    /\ Len(commonSubdomains) > 1
    /\ \E n \in DOMAIN commonSubdomains : probeOut.value[2][n] = Host_admin_example_com

\* C21: the A and AAAA lookups of a candidate are independent in outcome:
\* when the callback of a candidate produces its record, an address already
\* obtained from dns.resolve4 is in the record, whatever happens to the
\* AAAA lookup (failure or timeout).
C21_ObtainedAddressIsKept ==
    [][\A n \in DOMAIN mapper :
          (/\ mapper[n].st = "racing"
           /\ mapper'[n].st = "settled"
           /\ task[n].phase = "aaaa"
           /\ ~task[n].result.ip.isNull)
          => mapper'[n].value.ip = task[n].result.ip]_vars

\* number of batches of N candidates with limit C: ceil(N / C)
batches == (Total + concurrency - 1) \div concurrency

\* C22: for every candidate array and every C >= 1, with timers that fire,
\* resolveSubdomains eventually returns even if DNS lookups never complete,
\* and it returns after ceil(N / C) batch joins (each join advances i by C).
C22_ReturnsAfterAllBatches ==
    /\ <>(rpc = "returned")
    /\ [](rpc = "await" => i < concurrency * batches)
    /\ [](rpc = "returned" => i = concurrency * batches)

\* the call has returned after two batches or more although a lookup of
\* the first batch and a lookup of the last batch never completed
C22_Witness ==
    /\ rpc = "returned"
    /\ batches >= 2
    /\ task[1].phase = "a"
    /\ task[Total].phase = "aaaa"

\* batch (from 0) of the candidate at index n (from 1) for limit C
batchOf(n) == (n - 1) \div concurrency

\* C23: batches are strictly sequential: a candidate's lookup is started
\* only when every candidate of the earlier batches has settled, the
\* candidates of a batch are started together, and batch k holds the
\* candidates at input indices k*C .. min((k+1)*C, N) - 1.
C23_BatchesAreSequential ==
    rpc # "idle" =>
        /\ \A n \in DOMAIN task : task[n].phase # "none" =>
              \A m \in DOMAIN task :
                  /\ batchOf(m) < batchOf(n) => mapper[m].st = "settled"
                  /\ batchOf(m) = batchOf(n) => task[m].phase # "none"
        /\ rpc = "await" =>
              chunk = { n \in DOMAIN task : batchOf(n) = i \div concurrency }

\* the last batch is running, after a candidate of the first batch settled
\* by its timer with its lookup still outstanding
C23_Witness ==
    /\ rpc = "await"
    /\ i >= concurrency
    /\ mapper[1].st = "settled"
    /\ task[1].phase = "a"
    /\ task[Total].phase = "a"
    /\ mapper[Total].st = "racing"

\* the address a fixed answer gives, null for a failure or an empty answer
addressOf(answer) ==
    IF answer.ok /\ answer.addresses # <<>> THEN Str(answer.addresses[1]) ELSE NullStr

\* the record of candidate n that follows from its fixed outcome alone
plannedRecord(n) ==
    IF plan[n].timeout THEN DnsResult(subdomains[n], NullStr, NullStr)
    ELSE DnsResult(subdomains[n], addressOf(plan[n].a), addressOf(plan[n].aaaa))

\* C24: for fixed candidates and fixed per-candidate lookup outcomes the
\* array returned by resolveSubdomains is the same for every order in which
\* the lookups complete: it holds, at each input index, the record that
\* follows from that candidate's outcome.
C24_ResultIndependentOfCompletionOrder ==
    rpc = "returned" => results = [ n \in 1 .. Total |-> plannedRecord(n) ]

\* the call has returned from a batch in which the second candidate's
\* lookups completed while the first candidate's never did
C24_Witness ==
    /\ rpc = "returned"
    /\ concurrency >= 2
    /\ Total >= 2
    /\ task[1].phase = "a"
    /\ task[2].phase = "done"
    /\ ~results[2].ip.isNull

\* C25: a record placed in results stays as it is and results only grows
\* while the call runs; the value a callback returned stays as it is too.
\* So a DNS answer arriving after the candidate timed out alters no record
C25_RecordsNeverChange ==
    [][/\ rpc # "idle" =>
            /\ Len(results') >= Len(results)
            /\ \A n \in DOMAIN results : results'[n] = results[n]
       /\ \A n \in DOMAIN mapper :
             mapper[n].st = "settled" /\ rpc' # "idle" /\ n \in DOMAIN mapper'
             => mapper'[n] = mapper[n]]_vars

\* the first candidate timed out, its null record was pushed, and an
\* address for it arrived afterwards
C25_Witness ==
    /\ rpc \in { "await", "returned" }
    /\ Len(results) >= 1
    /\ results[1].ip.isNull
    /\ task[1].phase \in { "aaaa", "done" }
    /\ ~task[1].result.ip.isNull

\* position of POST in its pipeline: before discovery, in discovery, in
\* resolution (the candidate list is normalized on entering it), answered
\* (classification and aggregation are done on answering)
phaseRank(pc) ==
    CASE pc = "start" -> 0
      [] pc \in { "fetch", "body" } -> 1
      [] pc = "resolve" -> 2
      [] pc = "done" -> 3

\* C26: within one invocation the phases run in order and each at most
\* once: POST never moves back, crt.sh is asked at most once, the candidate
\* list is built and the resolver called at most once and only after the
\* discovery has ended, a report is built only after the resolver has
\* returned, and once POST has answered, successfully or not, nothing of it
\* runs again.
C26_PhasesInOrderOnce ==
    [][/\ phaseRank(ppc') >= phaseRank(ppc)
       /\ ctFetches' >= ctFetches
       /\ ctFetches' <= 1
       /\ ctFetches' > ctFetches => ppc = "start"
       /\ ctOutcome.settled => ctOutcome' = ctOutcome
       /\ rpc # "idle" =>
            /\ rpc' # "idle"
            /\ subdomains' = subdomains
            /\ allSubdomains' = allSubdomains
            /\ ctSubdomains' = ctSubdomains
       /\ rpc' # "idle" => ctOutcome'.settled /\ phaseRank(ppc') >= 2
       /\ response'.status = 200 => rpc' = "returned" /\ ppc' = "done"
       /\ ppc = "done" =>
            /\ ppc' = "done"
            /\ response' = response
            /\ ctFetches' = ctFetches]_vars

\* a scan that went through every phase: crt.sh was asked once, answered
\* with names, the candidates were resolved and the report was built
C26_Witness ==
    /\ ppc = "done"
    /\ Reported
    /\ ctFetches = 1
    /\ Len(ctSubdomains) >= 1
    /\ Len(Entries) >= 2
    /\ \E n \in DOMAIN Entries : ~Entries[n].ip.isNull

\* C27: in the subdomains list of a report two entries that both have an ip,
\* or both have none, stand in the order of their hostnames compared
\* character by character without regard to case.
C27_SameGroupOrderedByName ==
    Reported =>
        \A m, n \in DOMAIN Entries :
            (m < n /\ Entries[m].ip.isNull = Entries[n].ip.isNull)
            => codeUnitCompare(toLowerCase(Entries[m].subdomain),
                               toLowerCase(Entries[n].subdomain)) <= 0

\* a report with two resolved entries of different names, for a domain
\* written with capitals
C27_Witness ==
    /\ Reported
    /\ request.domain # toLowerCase(request.domain)
    /\ \E m, n \in DOMAIN Entries :
          /\ m < n
          /\ ~Entries[m].ip.isNull
          /\ ~Entries[n].ip.isNull
          /\ toLowerCase(Entries[m].subdomain) # toLowerCase(Entries[n].subdomain)

\* the candidates of a scan of d running alone, ct being what the discovery
\* returned
aloneCandidates(d, ct) == combine(ct, wordlistOf(d))

\* C28: two invocations running at the same time, interleaved in any way:
\* the module's array, the one object both reach, is never written; each
\* report is the report of the invocation's own candidates (those of a scan
\* running alone after the same answer of crt.sh) with the addresses its
\* own lookups gave; and when the two domains differ no entry of one report
\* is a candidate of the other invocation.
C28_InvocationsAreIndependent ==
    /\ commonSubdomains = PrefixTable
    /\ Reported =>
          /\ Len(results) = Len(aloneCandidates(request.domain, ctOutcome.returned))
          /\ \A n \in DOMAIN results :
                results[n].subdomain
                    = aloneCandidates(request.domain, ctOutcome.returned)[n]
          /\ response = buildResponse(request.domain, results)
    /\ other.response.status = 200 =>
          other.response
              = buildResponse(other.domain,
                              otherRecords(aloneCandidates(other.domain, other.ct),
                                           other.ips))
    /\ (other.pc # "none" /\ toLowerCase(other.domain) # toLowerCase(request.domain)) =>
          /\ \A n \in DOMAIN Entries, m \in DOMAIN other.all :
                Entries[n].subdomain # other.all[m]
          /\ \A n \in DOMAIN other.response.subdomains, m \in DOMAIN allSubdomains :
                other.response.subdomains[n].subdomain # allSubdomains[m]

\* both invocations have reported, for different domains, each with a name
\* from crt.sh and a resolved entry
C28_Witness ==
    /\ Reported
    /\ other.response.status = 200
    /\ toLowerCase(other.domain) # toLowerCase(request.domain)
    /\ Len(Entries) >= 2
    /\ Len(other.response.subdomains) >= 2
    /\ \E n \in DOMAIN Entries : ~Entries[n].ip.isNull
    /\ \E n \in DOMAIN other.response.subdomains : ~other.response.subdomains[n].ip.isNull

\* callbacks of chunk.map that have ended
ended == { n \in DOMAIN mapper : mapper[n].st \in { "settled", "rejected" } }

\* C29: with a progress callback, C >= 1 and N candidates: the callback has
\* been called once for every candidate whose lookup has ended (answered,
\* failed or timed out), its k-th call has the arguments (k, N), so the
\* first argument counts 1, 2, ... and never passes N, and all N calls have
\* been made when resolveSubdomains returns.
C29_ProgressOncePerCandidate ==
    (onProgress.given /\ rpc # "idle") =>
        /\ Len(onProgress.calls) = Cardinality(ended)
        /\ Len(onProgress.calls) <= Total
        /\ \A k \in DOMAIN onProgress.calls : onProgress.calls[k] = << k, Total >>
        /\ rpc = "returned" => Len(onProgress.calls) = Total

\* the call has returned after several batches in which one candidate
\* timed out, one got an address and one got errors from both lookups
C29_Witness ==
    /\ onProgress.given
    /\ rpc = "returned"
    /\ Total >= 3
    /\ concurrency = 2
    /\ onProgress.calls[Total] = << Total, Total >>
    /\ \E n \in DOMAIN task : task[n].phase = "a"
    /\ \E n \in DOMAIN task : mapper[n].shared /\ ~results[n].ip.isNull
    /\ \E n \in DOMAIN task : mapper[n].shared /\ results[n].ip.isNull

\* C30: every hostname fetchSubdomainsFromCrtSh returns for root domain d
\* is d itself or ends with "." and d in lower case; a name of another
\* domain that has d as a string suffix is not returned.
C30_ReturnedNamesAreUnderDomain ==
    (probeOut.done /\ ~probeOut.value.threw) =>
        \A n \in DOMAIN probeOut.value.value :
            \/ probeOut.value.value[n] = toLowerCase(probe.arg.domain)
            \/ endsWith(probeOut.value.value[n],
                        << "." >> \o toLowerCase(probe.arg.domain))

====
